---- MODULE Spec2Model ----
(***************************************************************************)
(* A model of the reflection query engine of lib/AST/Reflection.cpp and    *)
(* include/clang/AST/Reflection.h.                                         *)
(*                                                                         *)
(* The Program Model (declarations, types, expressions, base specifiers)   *)
(* is a small translation unit                                             *)
(*                                                                         *)
(*     <scope> S { <members> };   void fn() { <local> }   void g();        *)
(*     union U;   class K;   enum class E : int;   <extra>                 *)
(*                                                                         *)
(* whose scope, members and extra declaration are drawn by Init.  A        *)
(* client holds one reflection value (subject), evaluates queries on it    *)
(* and may feed an associated reflection back as its next subject.         *)
(***************************************************************************)
EXTENDS Integers, Sequences, FiniteSets, TLC

VARIABLES
  scopeKind,  \* kind of the scope S: "struct", "enum" or "namespace"
  members,    \* the child kinds of S, in declaration order
  extra,      \* one more declaration of the translation unit (or NullDecl)
  subject,    \* the reflection value the client holds (Reflection::Ref)
  arg,        \* the second operand of the last Equal call
  pc,         \* "idle", "returned" (a call has just returned) or "halted"
  query,      \* the query of the last call
  ret,        \* how the last call ended: "true", "false" or "halt"
  result,     \* the caller's APValue &Result
  diag,       \* the caller's diagnostic sink (Reflection::Diag)
  hasSink,    \* whether the caller supplied a sink at all
  trail,      \* where a traversal began, then the reflections it yielded
  entry       \* the entry point of the last call

vars == <<scopeKind, members, extra, subject, arg, pc, query, ret, result,
          diag, hasSink, trail, entry>>

\* Bounds of the model: the children a scope has beyond its fixed ones, the
\* diagnostics a sink holds before the caller stops asking, and the
\* user-defined attributes of a declaration.
MaxMembers == 3
MaxDiag == 2
MaxAttrs == 2

-----------------------------------------------------------------------------
(* The Program Model: types.                                               *)

NullType == [cls |-> "Null", sugar |-> "none", tag |-> 0, cv |-> FALSE]

Ty(cls, tag) == [cls |-> cls, sugar |-> "none", tag |-> tag, cv |-> FALSE]

\* The const-qualified version of T.
ConstOf(T) == [T EXCEPT !.cv = TRUE]

\* A type alias of T (sugar over the same canonical type).
AliasOf(T) == [T EXCEPT !.sugar = "alias"]

\* A LocInfoType wrapping T.
LocInfoOf(T) == [T EXCEPT !.sugar = IF T.sugar = "alias" THEN "locinfo_alias" ELSE "locinfo"]

IntTy == Ty("Int", 0)

-----------------------------------------------------------------------------
(* The Program Model: declarations.                                        *)

NullDecl ==
  [id |-> 0, canon |-> 0, kind |-> "Null", ident |-> "", ctx |-> "null",
   lex |-> "null", pos |-> 0, link |-> "NoLinkage", access |-> "AS_none",
   storage |-> "SD_Static", tagkind |-> "none", tsk |-> "TSK_Undeclared",
   props |-> {}, templated |-> "none", ty |-> NullType, rty |-> NullType,
   attrs |-> <<>>]

\* A user-defined attribute: the type of its expression and its value.
UserDefinedAttr(ty, val) == [ty |-> ty, val |-> val]

\* A declaration at translation-unit level, with default attributes.
MkDecl(id, kind, ident) ==
  [NullDecl EXCEPT !.id = id, !.canon = id, !.kind = kind, !.ident = ident,
                   !.ctx = "TU", !.lex = "TU", !.link = "ExternalLinkage"]

VarKinds == {"Var", "ParmVar", "VarTemplateSpecialization",
             "VarTemplatePartialSpecialization"}
FunctionKinds == {"Function", "CXXMethod", "CXXConstructor", "CXXDestructor",
                  "CXXConversion"}
MethodKinds == FunctionKinds \ {"Function"}
ValueKinds == VarKinds \cup FunctionKinds \cup
              {"Field", "EnumConstant", "NonTypeTemplateParm"}
CXXRecordKinds == {"CXXRecord", "ClassTemplateSpecialization",
                   "ClassTemplatePartialSpecialization"}
TagKinds == CXXRecordKinds \cup {"Enum"}
TypedefNameKinds == {"Typedef", "TypeAlias"}
TypeDeclKinds == TagKinds \cup TypedefNameKinds \cup {"TemplateTypeParm"}
TemplateKinds == {"ClassTemplate", "FunctionTemplate", "VarTemplate",
                  "TypeAliasTemplate", "TemplateTemplateParm"}
NamedKinds == ValueKinds \cup TypeDeclKinds \cup TemplateKinds \cup
              {"Namespace", "NamespaceAlias"}
DeclContextKinds == {"TranslationUnit", "Namespace"} \cup TagKinds \cup
                    FunctionKinds

TUDecl ==
  [NullDecl EXCEPT !.id = 1, !.canon = 1, !.kind = "TranslationUnit"]

Names == <<"S", "a", "b", "c", "d", "e">>

NameAt(i) == Names[(i % Len(Names)) + 1]

\* The scope S itself: a defined struct, a defined unscoped enum, or a
\* namespace.  A struct with no children at all is only declared.
ScopeDeclOf(sk, ms) ==
  [MkDecl(2, CASE sk = "struct" -> "CXXRecord"
                     [] sk = "enum" -> "Enum"
                     [] OTHER -> "Namespace", "S")
     EXCEPT !.pos = 1,
            !.tagkind = IF sk = "namespace" THEN "none" ELSE sk,
            !.props = IF sk = "struct" /\ ms = <<>> THEN {}
                      ELSE IF sk = "namespace" THEN {}
                      ELSE {"defined", "complete"}]

ScopeDecl == ScopeDeclOf(scopeKind, members)

ScopeTy(sk) == Ty(IF sk = "enum" THEN "Enum" ELSE "Record", 2)

\* void fn() { ... }: the function enclosing the local declarations.
FnDecl ==
  [MkDecl(3, "Function", "fn") EXCEPT !.pos = 2, !.props = {"defined"},
                                      !.ty = Ty("FunctionProto", 0),
                                      !.rty = Ty("Void", 0)]

\* void g();  the first declaration of g.
FwdFnDecl ==
  [MkDecl(4, "Function", "g") EXCEPT !.pos = 3,
                                     !.ty = Ty("FunctionProto", 0),
                                     !.rty = Ty("Void", 0)]

\* union U;
UnionDecl ==
  [MkDecl(5, "CXXRecord", "U") EXCEPT !.pos = 4, !.tagkind = "union"]

\* class K;
ClassDecl ==
  [MkDecl(6, "CXXRecord", "K") EXCEPT !.pos = 5, !.tagkind = "class"]

\* enum class E : int;
ScopedEnumDecl ==
  [MkDecl(7, "Enum", "E") EXCEPT !.pos = 6, !.tagkind = "enum",
                                            !.props = {"scoped", "complete"}]

\* The access of the i-th child of a struct: public until the first
\* access specifier (which reads "private:"), private after it.
AccessAt(ms, i) ==
  IF \E j \in 1..(i - 1) : ms[j] = "AccessSpec" THEN "AS_private"
  ELSE "AS_public"

\* The i-th child of S.
MemberOf(sk, ms, i) ==
  LET k == ms[i]
      base == [MkDecl(10 + i, "Null", NameAt(i))
                 EXCEPT !.ctx = "scope", !.lex = "scope", !.pos = i]
      acc == IF sk = "struct" THEN AccessAt(ms, i) ELSE "AS_none"
  IN CASE k = "InjectedClassName" ->
            [base EXCEPT !.kind = "CXXRecord", !.ident = "S",
                         !.canon = 2, !.tagkind = "struct",
                         !.access = "AS_public",
                         !.props = {"injected", "defined", "complete"}]
       [] k = "AccessSpec" ->
            [base EXCEPT !.kind = "AccessSpec", !.ident = "",
                         !.link = "NoLinkage", !.access = "AS_private"]
       [] k = "Field" ->
            [base EXCEPT !.kind = "Field", !.link = "NoLinkage",
                         !.access = acc, !.ty = IntTy]
       [] k = "CXXMethod" ->
            [base EXCEPT !.kind = "CXXMethod", !.access = acc,
                         !.props = {"defined", "inline"},
                         !.ty = Ty("FunctionProto", 0), !.rty = IntTy]
       [] k = "EnumConstant" ->
            [base EXCEPT !.kind = "EnumConstant", !.ty = ScopeTy("enum"),
                         !.access = acc]
       [] k = "Var" ->
            [base EXCEPT !.kind = "Var", !.props = {"defined"},
                         !.ty = IntTy]
       [] OTHER ->
            [base EXCEPT !.kind = "Function", !.ty = Ty("FunctionProto", 0),
                         !.rty = IntTy]

Member(i) == MemberOf(scopeKind, members, i)

MemberDecls == [i \in 1..Len(members) |-> Member(i)]

\* The children of the translation unit.
TUDecls ==
  <<ScopeDecl, FnDecl, FwdFnDecl, UnionDecl, ClassDecl, ScopedEnumDecl>> \o
  (IF extra.ctx = "TU" THEN <<extra>> ELSE <<>>)

\* DeclContext::decls(): the children of the declaration context D.
Children(D) ==
  CASE D.id = 1 -> TUDecls
    [] D.id = 2 -> MemberDecls
    [] D.id = 3 -> IF extra.ctx = "fn" THEN <<extra>> ELSE <<>>
    [] OTHER -> <<>>

\* Decl::getDeclContext() / Decl::getLexicalDeclContext(), as a declaration.
ContextDecl(c) ==
  CASE c = "TU" -> TUDecl
    [] c = "scope" -> ScopeDecl
    [] c = "fn" -> FnDecl
    [] OTHER -> NullDecl

\* The declaration with the given identity.
DeclById(i) ==
  CASE i = 1 -> TUDecl
    [] i = 2 -> ScopeDecl
    [] i = 3 -> FnDecl
    [] i = 4 -> FwdFnDecl
    [] i = 5 -> UnionDecl
    [] i = 6 -> ClassDecl
    [] i = 7 -> ScopedEnumDecl
    [] i = extra.id -> extra
    [] i > 10 /\ i <= 10 + Len(members) -> Member(i - 10)
    [] OTHER -> NullDecl

\* Decl::getNextDeclInContext()
getNextDeclInContext(D) ==
  LET cs == Children(ContextDecl(D.lex))
  IN IF D.pos >= 1 /\ D.pos < Len(cs) THEN cs[D.pos + 1] ELSE NullDecl

\* Decl::getCanonicalDecl()
getCanonicalDecl(D) == DeclById(D.canon)

-----------------------------------------------------------------------------
(* The Program Model: expressions and base specifiers.                     *)

NullExpr == [cls |-> "Null", vk |-> "rvalue", ref |-> NullDecl, ty |-> NullType]

\* An expression of class cls and value category vk; ref is the declaration
\* a DeclRefExpr names.
MkExpr(cls, vk, ref, ty) == [cls |-> cls, vk |-> vk, ref |-> ref, ty |-> ty]

NullBase == [ty |-> NullType, virtual |-> FALSE]

MkBase(ty, virtual) == [ty |-> ty, virtual |-> virtual]

\* ASTContext::getCanonicalType
CanonicalTypeOf(T) == [T EXCEPT !.sugar = "none"]

\* Type::getAsTagDecl(): looks through sugar to a tag type's declaration.
getAsTagDecl(T) ==
  IF T.cls \in {"Record", "Enum"} THEN DeclById(T.tag) ELSE NullDecl

-----------------------------------------------------------------------------
(* Reflection values (class Reflection over an APValue).                   *)

MkRefl(kind, decl, type, expr, base) ==
  [kind |-> kind, decl |-> decl, type |-> type, expr |-> expr, base |-> base,
   msg |-> 0]

\* APValue(RK_invalid, nullptr)
InvalidRefl == MkRefl("RK_invalid", NullDecl, NullType, NullExpr, NullBase)

\* An invalid reflection that carries a diagnostic expression.
InvalidReflWith(m) == [InvalidRefl EXCEPT !.msg = m]

TypeRefl(T) == MkRefl("RK_type", NullDecl, T, NullExpr, NullBase)
DeclRefl(D) == MkRefl("RK_declaration", D, NullType, NullExpr, NullBase)
ExprRefl(E) == MkRefl("RK_expression", NullDecl, NullType, E, NullBase)
BaseRefl(B) == MkRefl("RK_base_specifier", NullDecl, NullType, NullExpr, B)

isInvalidKind(R) == R.kind = "RK_invalid"
isTypeKind(R) == R.kind = "RK_type"
isDeclarationKind(R) == R.kind = "RK_declaration"
isExpressionKind(R) == R.kind = "RK_expression"
isBaseKind(R) == R.kind = "RK_base_specifier"

\* Reflection::getAsDeclaration -> APValue::getReflectedDeclaration.  The
\* APValue accessors are not part of the sources at hand: a reflection of
\* another kind holds no declaration.
getAsDeclaration(R) == IF isDeclarationKind(R) THEN R.decl ELSE NullDecl

\* Reflection::getAsType -> APValue::getReflectedType (see above).
getAsType(R) == IF isTypeKind(R) THEN R.type ELSE NullType

-----------------------------------------------------------------------------
(* Values written to the caller's APValue &Result, and how a call ends.    *)

Unset == [t |-> "unset", b |-> FALSE, n |-> 0, r |-> InvalidRefl, s |-> ""]

\* makeBool
makeBool(B) == [Unset EXCEPT !.t = "bool", !.b = B]

UIntVal(N) == [Unset EXCEPT !.t = "uint", !.n = N]
ReflVal(R) == [Unset EXCEPT !.t = "reflection", !.r = R]
StrVal(S) == [Unset EXCEPT !.t = "string", !.s = S]

\* A call that returns true after assigning V to Result.
Success(V) == [ret |-> "true", set |-> TRUE, val |-> V, dg |-> <<>>]

\* A call that stops at a failed assertion, an llvm_unreachable or the use
\* of a null pointer: it returns nothing.
Halt == [ret |-> "halt", set |-> FALSE, val |-> Unset, dg |-> <<>>]

SuccessBool(B) == Success(makeBool(B))
SuccessTrue == SuccessBool(TRUE)
SuccessFalse == SuccessBool(FALSE)

\* A faulty CustomError that resets the caller's Result before it returns
\* false.
CustomError_resetting(D) ==
  [ret |-> "false", set |-> TRUE, val |-> Unset,
   dg |-> IF hasSink THEN <<D>> ELSE <<>>]

\* CustomError: returns false; the diagnostic is pushed only when the
\* caller supplied a sink.
CustomError(D) ==
  [ret |-> "false", set |-> FALSE, val |-> Unset,
   dg |-> IF hasSink THEN <<D>> ELSE <<>>]

\* getQualType: sees through a LocInfoType.
getQualType(QT) ==
  CASE QT.sugar = "locinfo" -> [QT EXCEPT !.sugar = "none"]
    [] QT.sugar = "locinfo_alias" -> [QT EXCEPT !.sugar = "alias"]
    [] OTHER -> QT

\* Error: the note_reflection_not_defined diagnostic.
Error(R) ==
  CustomError([id |-> "note_reflection_not_defined",
               sel |-> IF isTypeKind(R) THEN 1 ELSE 0,
               ty |-> IF isTypeKind(R) THEN getQualType(getAsType(R))
                      ELSE NullType])

\* ErrorUnimplemented: the note_reflection_query_unimplemented diagnostic.
ErrorUnimplemented(R) ==
  CustomError([id |-> "note_reflection_query_unimplemented", sel |-> 0,
               ty |-> NullType])

-----------------------------------------------------------------------------
(* Reachability projections.                                               *)

\* getAsTypeDecl
getAsTypeDecl(R) ==
  IF isTypeKind(R) THEN getAsTagDecl(getQualType(getAsType(R))) ELSE NullDecl

\* getEntityDecl
getEntityDecl(E) == IF E.cls = "DeclRefExpr" THEN E.ref ELSE NullDecl

\* getReachableDecl
getReachableDecl(R) ==
  IF getAsTypeDecl(R) # NullDecl THEN getAsTypeDecl(R)
  ELSE IF isDeclarationKind(R) THEN getAsDeclaration(R)
  ELSE IF isExpressionKind(R) THEN getEntityDecl(R.expr)
  ELSE NullDecl

\* getCanonicalType(const Reflection &): a null type unless R is a type.
getCanonicalType(R) ==
  IF isTypeKind(R) THEN CanonicalTypeOf(getQualType(getAsType(R)))
  ELSE NullType

\* getExpr
getExpr(R) == IF isExpressionKind(R) THEN R.expr ELSE NullExpr

\* dyn_cast<To>(D) for a non-null D: D when its kind is one of Kinds.
DynCast(D, Kinds) == IF D.kind \in Kinds THEN D ELSE NullDecl

getReachableRecordDecl(R) ==
  IF getReachableDecl(R) # NullDecl
  THEN DynCast(getReachableDecl(R), CXXRecordKinds) ELSE NullDecl

getReachableEnumDecl(R) ==
  IF getReachableDecl(R) # NullDecl
  THEN DynCast(getReachableDecl(R), {"Enum"}) ELSE NullDecl

getAsDataMember(R) ==
  IF getReachableDecl(R) # NullDecl
  THEN DynCast(getReachableDecl(R), {"Field"}) ELSE NullDecl

getAsMemberFunction(R) ==
  IF getReachableDecl(R) # NullDecl
  THEN DynCast(getReachableDecl(R), MethodKinds) ELSE NullDecl

getReachableConstructor(R) ==
  IF getReachableDecl(R) # NullDecl
  THEN DynCast(getReachableDecl(R), {"CXXConstructor"}) ELSE NullDecl

-----------------------------------------------------------------------------
(* Predicates.                                                             *)

isInvalid(R) == SuccessBool(isInvalidKind(R))

isEntity(R) ==
  IF isTypeKind(R) THEN SuccessTrue
  ELSE IF isDeclarationKind(R)
  THEN LET D == getAsDeclaration(R)
       IN IF D.kind \in ValueKinds THEN SuccessTrue
          ELSE IF D.kind \in TemplateKinds
          THEN SuccessBool(D.kind # "TemplateTemplateParm")
          ELSE IF D.kind = "Namespace" THEN SuccessTrue
          ELSE SuccessFalse
  ELSE SuccessFalse

isUnnamed(R) ==
  LET D == getAsDeclaration(R)
  IN IF D # NullDecl /\ D.kind \in NamedKinds
     THEN SuccessBool(D.ident = "")
     ELSE Error(R)

\* A faulty isVariable that reports an error where no declaration is
\* reachable.
isVariable_failing(R) ==
  IF getReachableDecl(R) # NullDecl
  THEN SuccessBool(getReachableDecl(R).kind \in VarKinds)
  ELSE Error(R)

isVariable(R) ==
  IF getReachableDecl(R) # NullDecl
  THEN SuccessBool(getReachableDecl(R).kind \in VarKinds)
  ELSE SuccessFalse

isFunction(R) ==
  IF getReachableDecl(R) # NullDecl
  THEN SuccessBool(getReachableDecl(R).kind \in FunctionKinds)
  ELSE SuccessFalse

isClass(R) ==
  IF getReachableRecordDecl(R) # NullDecl
  THEN SuccessBool(getReachableRecordDecl(R).tagkind \in {"class", "struct"})
  ELSE SuccessFalse

isUnion(R) ==
  IF getReachableRecordDecl(R) # NullDecl
  THEN SuccessBool(getReachableRecordDecl(R).tagkind = "union")
  ELSE SuccessFalse

isUnscopedEnum(R) ==
  IF getReachableEnumDecl(R) # NullDecl
  THEN SuccessBool("scoped" \notin getReachableEnumDecl(R).props)
  ELSE SuccessFalse

isScopedEnum(R) ==
  IF getReachableEnumDecl(R) # NullDecl
  THEN SuccessBool("scoped" \in getReachableEnumDecl(R).props)
  ELSE SuccessFalse

isEnumerator(R) ==
  IF getReachableDecl(R) # NullDecl
  THEN SuccessBool(getReachableDecl(R).kind = "EnumConstant")
  ELSE SuccessFalse

isBitField(R) ==
  IF getAsDataMember(R) # NullDecl
  THEN SuccessBool("bitfield" \in getAsDataMember(R).props)
  ELSE SuccessFalse

isStaticDataMember(R) ==
  IF getReachableDecl(R) # NullDecl /\ getReachableDecl(R).kind \in VarKinds
  THEN SuccessBool("staticDataMember" \in getReachableDecl(R).props)
  ELSE SuccessFalse

isNonstaticDataMember(R) ==
  IF getAsDataMember(R) # NullDecl THEN SuccessTrue ELSE SuccessFalse

isStaticMemberFunction(R) ==
  IF getAsMemberFunction(R) # NullDecl
  THEN SuccessBool("static" \in getAsMemberFunction(R).props)
  ELSE SuccessFalse

isNonstaticMemberFunction(R) ==
  IF getAsMemberFunction(R) # NullDecl
  THEN SuccessBool("static" \notin getAsMemberFunction(R).props)
  ELSE SuccessFalse

isCopyAssignmentOperator(R) ==
  IF getAsMemberFunction(R) # NullDecl
  THEN SuccessBool("copyAssign" \in getAsMemberFunction(R).props)
  ELSE SuccessFalse

isMoveAssignmentOperator(R) ==
  IF getAsMemberFunction(R) # NullDecl
  THEN SuccessBool("moveAssign" \in getAsMemberFunction(R).props)
  ELSE SuccessFalse

isConstructor(R) ==
  IF getReachableConstructor(R) # NullDecl THEN SuccessTrue ELSE SuccessFalse

isDefaultConstructor(R) ==
  IF getReachableConstructor(R) # NullDecl
  THEN SuccessBool("defaultCtor" \in getReachableConstructor(R).props)
  ELSE SuccessFalse

isCopyConstructor(R) ==
  IF getReachableConstructor(R) # NullDecl
  THEN SuccessBool("copyCtor" \in getReachableConstructor(R).props)
  ELSE SuccessFalse

isMoveConstructor(R) ==
  IF getReachableConstructor(R) # NullDecl
  THEN SuccessBool("moveCtor" \in getReachableConstructor(R).props)
  ELSE SuccessFalse

isDestructor(R) ==
  IF getReachableDecl(R) # NullDecl
  THEN SuccessBool(getReachableDecl(R).kind = "CXXDestructor")
  ELSE SuccessFalse

isType(R) == SuccessBool(isTypeKind(R))

isFunctionType(R) ==
  IF getCanonicalType(R) # NullType
  THEN SuccessBool(getCanonicalType(R).cls = "FunctionProto")
  ELSE SuccessFalse

isClassType(R) ==
  IF getCanonicalType(R) # NullType
  THEN SuccessBool(getCanonicalType(R).cls = "Record")
  ELSE SuccessFalse

isUnionType(R) ==
  IF getCanonicalType(R) # NullType
  THEN SuccessBool(getCanonicalType(R).cls = "Record" /\
                   DeclById(getCanonicalType(R).tag).tagkind = "union")
  ELSE SuccessFalse

isEnumType(R) ==
  IF getCanonicalType(R) # NullType
  THEN SuccessBool(getCanonicalType(R).cls = "Enum")
  ELSE SuccessFalse

isScopedEnumType(R) ==
  IF getCanonicalType(R) # NullType
  THEN SuccessBool(getCanonicalType(R).cls = "Enum" /\
                   "scoped" \in DeclById(getCanonicalType(R).tag).props)
  ELSE SuccessFalse

isVoidType(R) ==
  IF getCanonicalType(R) # NullType
  THEN SuccessBool(getCanonicalType(R).cls = "Void")
  ELSE SuccessFalse

isNullPtrType(R) ==
  IF getCanonicalType(R) # NullType
  THEN SuccessBool(getCanonicalType(R).cls = "NullPtr")
  ELSE SuccessFalse

isIntegralType(R) ==
  IF getCanonicalType(R) # NullType
  THEN SuccessBool(getCanonicalType(R).cls = "Int" \/
                   (getCanonicalType(R).cls = "Enum" /\
                    "complete" \in DeclById(getCanonicalType(R).tag).props))
  ELSE SuccessFalse

isFloatingPointType(R) ==
  IF getCanonicalType(R) # NullType
  THEN SuccessBool(getCanonicalType(R).cls = "Float")
  ELSE SuccessFalse

isArrayType(R) ==
  IF getCanonicalType(R) # NullType
  THEN SuccessBool(getCanonicalType(R).cls = "Array")
  ELSE SuccessFalse

isPointerType(R) ==
  IF getCanonicalType(R) # NullType
  THEN SuccessBool(getCanonicalType(R).cls = "Pointer")
  ELSE SuccessFalse

isLValueReferenceType(R) ==
  IF getCanonicalType(R) # NullType
  THEN SuccessBool(getCanonicalType(R).cls = "LValueReference")
  ELSE SuccessFalse

isRValueReferenceType(R) ==
  IF getCanonicalType(R) # NullType
  THEN SuccessBool(getCanonicalType(R).cls = "RValueReference")
  ELSE SuccessFalse

isMemberObjectPointerType(R) ==
  IF getCanonicalType(R) # NullType
  THEN SuccessBool(getCanonicalType(R).cls = "MemberDataPointer")
  ELSE SuccessFalse

isMemberFunctionPointerType(R) ==
  IF getCanonicalType(R) # NullType
  THEN SuccessBool(getCanonicalType(R).cls = "MemberFunctionPointer")
  ELSE SuccessFalse

isClosureType(R) == ErrorUnimplemented(R)

isNamespace(R) ==
  IF getReachableDecl(R) # NullDecl
  THEN SuccessBool(getReachableDecl(R).kind \in {"Namespace", "TranslationUnit"})
  ELSE SuccessFalse

isNamespaceAlias(R) ==
  IF getReachableDecl(R) # NullDecl
  THEN SuccessBool(getReachableDecl(R).kind = "NamespaceAlias")
  ELSE SuccessFalse

isTypeAlias(R) ==
  IF getReachableDecl(R) # NullDecl
  THEN SuccessBool(getReachableDecl(R).kind \in TypedefNameKinds)
  ELSE SuccessFalse

isTemplate(R) ==
  IF getReachableDecl(R) # NullDecl
  THEN SuccessBool(getReachableDecl(R).kind \in TemplateKinds)
  ELSE SuccessFalse

isClassTemplate(R) ==
  IF getReachableDecl(R) # NullDecl
  THEN SuccessBool(getReachableDecl(R).kind = "ClassTemplate")
  ELSE SuccessFalse

isAliasTemplate(R) ==
  IF getReachableDecl(R) # NullDecl
  THEN SuccessBool(getReachableDecl(R).kind = "TypeAliasTemplate")
  ELSE SuccessFalse

isFunctionTemplate(R) ==
  IF getReachableDecl(R) # NullDecl
  THEN SuccessBool(getReachableDecl(R).kind = "FunctionTemplate")
  ELSE SuccessFalse

isVariableTemplate(R) ==
  IF getReachableDecl(R) # NullDecl
  THEN SuccessBool(getReachableDecl(R).kind = "VarTemplate")
  ELSE SuccessFalse

\* getAsTemplateMemberFunction: the member function a function template
\* declares, if it declares one.
getAsTemplateMemberFunction(R) ==
  LET D == getReachableDecl(R)
  IN IF D # NullDecl /\ D.kind = "FunctionTemplate"
     THEN DynCast([D EXCEPT !.kind = D.templated], MethodKinds)
     ELSE NullDecl

isStaticMemberFunctionTemplate(R) ==
  IF getAsTemplateMemberFunction(R) # NullDecl
  THEN SuccessBool("static" \in getAsTemplateMemberFunction(R).props)
  ELSE SuccessFalse

isNonstaticMemberFunctionTemplate(R) ==
  IF getAsTemplateMemberFunction(R) # NullDecl
  THEN SuccessBool("static" \notin getAsTemplateMemberFunction(R).props)
  ELSE SuccessFalse

isConstructorTemplate(R) ==
  IF getAsTemplateMemberFunction(R) # NullDecl
  THEN SuccessBool(getAsTemplateMemberFunction(R).kind = "CXXConstructor")
  ELSE SuccessFalse

isDestructorTemplate(R) ==
  IF getAsTemplateMemberFunction(R) # NullDecl
  THEN SuccessBool(getAsTemplateMemberFunction(R).kind = "CXXDestructor")
  ELSE SuccessFalse

isConcept(R) ==
  IF getReachableDecl(R) # NullDecl /\ getReachableDecl(R).kind \in TemplateKinds
  THEN SuccessBool("concept" \in getReachableDecl(R).props)
  ELSE SuccessFalse

isPartialTemplateSpecialization(D) ==
  D.kind \in {"ClassTemplatePartialSpecialization",
              "VarTemplatePartialSpecialization"}

isTemplateSpecialization(D) ==
  \/ D.kind \in {"ClassTemplateSpecialization",
                 "ClassTemplatePartialSpecialization"}
  \/ D.kind = "ClassScopeFunctionSpecialization"
  \/ D.kind \in {"VarTemplateSpecialization",
                 "VarTemplatePartialSpecialization"}
  \/ isPartialTemplateSpecialization(D)

isSpecialization(R) ==
  IF getReachableDecl(R) # NullDecl
  THEN SuccessBool(isTemplateSpecialization(getReachableDecl(R)))
  ELSE SuccessFalse

isPartialSpecialization(R) ==
  IF getReachableDecl(R) # NullDecl
  THEN SuccessBool(isPartialTemplateSpecialization(getReachableDecl(R)))
  ELSE SuccessFalse

getTemplateSpecializationKind(R) ==
  LET D == getReachableDecl(R)
  IN IF D = NullDecl THEN "TSK_Undeclared"
     ELSE IF D.kind \in CXXRecordKinds THEN D.tsk
     ELSE IF D.kind \in VarKinds THEN D.tsk
     ELSE IF D.kind \in FunctionKinds THEN D.tsk
     ELSE IF D.kind = "Enum" THEN D.tsk
     ELSE "TSK_Undeclared"

isExplicitSpecialization(R) ==
  IF getTemplateSpecializationKind(R) # "TSK_Undeclared"
  THEN SuccessBool(getTemplateSpecializationKind(R) =
                     "TSK_ExplicitSpecialization")
  ELSE SuccessFalse

isImplicitInstantiation(R) ==
  IF getTemplateSpecializationKind(R) # "TSK_Undeclared"
  THEN SuccessBool(getTemplateSpecializationKind(R) =
                     "TSK_ImplicitInstantiation")
  ELSE SuccessFalse

\* A faulty isExplicitInstantiation that accepts every kind but implicit
\* instantiation.
isExplicitInstantiation_any(R) ==
  IF getTemplateSpecializationKind(R) # "TSK_Undeclared"
  THEN SuccessBool(getTemplateSpecializationKind(R) #
                     "TSK_ImplicitInstantiation")
  ELSE SuccessFalse

isExplicitInstantiation(R) ==
  IF getTemplateSpecializationKind(R) # "TSK_Undeclared"
  THEN SuccessBool(getTemplateSpecializationKind(R) \in
                     {"TSK_ExplicitInstantiationDeclaration",
                      "TSK_ExplicitInstantiationDefinition"})
  ELSE SuccessFalse

isDirectBase(R) == ErrorUnimplemented(R)

isVirtualBase(R) == ErrorUnimplemented(R)

isFunctionParameter(R) == ErrorUnimplemented(R)

isTemplateParameter(R) ==
  IF getReachableDecl(R) # NullDecl
  THEN SuccessBool(getReachableDecl(R).kind \in
                     {"TemplateTypeParm", "NonTypeTemplateParm",
                      "TemplateTemplateParm"})
  ELSE SuccessFalse

isTypeTemplateParameter(R) ==
  IF getReachableDecl(R) # NullDecl
  THEN SuccessBool(getReachableDecl(R).kind = "TemplateTypeParm")
  ELSE SuccessFalse

isNontypeTemplateParameter(R) ==
  IF getReachableDecl(R) # NullDecl
  THEN SuccessBool(getReachableDecl(R).kind = "NonTypeTemplateParm")
  ELSE SuccessFalse

isTemplateTemplateParameter(R) ==
  IF getReachableDecl(R) # NullDecl
  THEN SuccessBool(getReachableDecl(R).kind = "TemplateTemplateParm")
  ELSE SuccessFalse

isExpression(R) == SuccessBool(isExpressionKind(R))

isLValue(R) ==
  IF getExpr(R) # NullExpr
  THEN SuccessBool(getExpr(R).vk = "lvalue")
  ELSE SuccessFalse

isXValue(R) ==
  IF getExpr(R) # NullExpr
  THEN SuccessBool(getExpr(R).vk = "xvalue")
  ELSE SuccessFalse

isRValue(R) ==
  IF getExpr(R) # NullExpr
  THEN SuccessBool(getExpr(R).vk = "rvalue")
  ELSE SuccessFalse

isValue(R) ==
  IF getExpr(R) # NullExpr /\
     getExpr(R).cls \in {"IntegerLiteral", "FixedPointLiteral",
                         "FloatingLiteral", "CharacterLiteral",
                         "ImaginaryLiteral", "StringLiteral",
                         "CompoundLiteralExpr", "UserDefinedLiteral",
                         "CXXBoolLiteralExpr", "CXXNullPtrLiteralExpr"}
  THEN SuccessTrue
  ELSE SuccessFalse

\* DeclContext::getRedeclContext(): skips transparent contexts (an unscoped
\* enumeration).
getRedeclContext(DC) ==
  IF DC.kind = "Enum" /\ "scoped" \notin DC.props
  THEN ContextDecl(DC.ctx) ELSE DC

\* getReachableRedeclContext: the lexical context's redeclaration context.
getReachableRedeclContext(R) ==
  LET D == getReachableDecl(R)
  IN IF D # NullDecl /\ ContextDecl(D.lex) # NullDecl
     THEN getRedeclContext(ContextDecl(D.lex))
     ELSE NullDecl

isLocal(R) ==
  IF getReachableRedeclContext(R) # NullDecl
  THEN SuccessBool(getReachableRedeclContext(R).kind \in FunctionKinds)
  ELSE SuccessFalse

isClassMember(R) ==
  IF getReachableRedeclContext(R) # NullDecl
  THEN SuccessBool(getReachableRedeclContext(R).kind \in CXXRecordKinds)
  ELSE SuccessFalse

\* The index of the first child of Ds that is an access specifier or is D
\* itself, 0 if there is none: where the loop of hasDefaultAccess returns.
FirstStop(Ds, D) ==
  IF \E i \in 1..Len(Ds) : Ds[i].kind = "AccessSpec" \/ Ds[i].id = D.id
  THEN CHOOSE i \in 1..Len(Ds) :
         /\ Ds[i].kind = "AccessSpec" \/ Ds[i].id = D.id
         /\ \A j \in 1..(i - 1) : ~(Ds[j].kind = "AccessSpec" \/ Ds[j].id = D.id)
  ELSE 0

\* hasDefaultAccess.  dyn_cast<RecordDecl> of the null context of the
\* translation unit is a use of a null pointer.
hasDefaultAccess(R) ==
  LET D == getReachableDecl(R)
  IN IF D # NullDecl
     THEN IF ContextDecl(D.ctx) = NullDecl THEN Halt
          ELSE IF ContextDecl(D.ctx).kind \in CXXRecordKinds
          THEN LET Ds == Children(ContextDecl(D.ctx))
                   i == FirstStop(Ds, D)
               IN IF i = 0 THEN SuccessFalse
                  ELSE IF Ds[i].kind = "AccessSpec" THEN SuccessFalse
                  ELSE SuccessTrue
          ELSE SuccessFalse
     ELSE SuccessFalse

-----------------------------------------------------------------------------
(* The query catalogue (enum ReflectionQuery).                             *)

ReflectionQuery ==
  <<"RQ_unknown", "RQ_is_invalid", "RQ_is_entity", "RQ_is_unnamed",
    "RQ_is_variable", "RQ_is_function", "RQ_is_class", "RQ_is_union",
    "RQ_is_unscoped_enum", "RQ_is_scoped_enum", "RQ_is_enumerator",
    "RQ_is_bitfield", "RQ_is_static_data_member",
    "RQ_is_nonstatic_data_member", "RQ_is_static_member_function",
    "RQ_is_nonstatic_member_function", "RQ_is_copy_assignment_operator",
    "RQ_is_move_assignment_operator", "RQ_is_constructor",
    "RQ_is_default_constructor", "RQ_is_copy_constructor",
    "RQ_is_move_constructor", "RQ_is_destructor", "RQ_is_type",
    "RQ_is_function_type", "RQ_is_class_type", "RQ_is_union_type",
    "RQ_is_enum_type", "RQ_is_scoped_enum_type", "RQ_is_void_type",
    "RQ_is_null_pointer_type", "RQ_is_integral_type",
    "RQ_is_floating_point_type", "RQ_is_array_type", "RQ_is_pointer_type",
    "RQ_is_lvalue_reference_type", "RQ_is_rvalue_reference_type",
    "RQ_is_member_object_pointer_type", "RQ_is_member_function_pointer_type",
    "RQ_is_closure_type", "RQ_is_namespace", "RQ_is_namespace_alias",
    "RQ_is_type_alias", "RQ_is_template", "RQ_is_class_template",
    "RQ_is_alias_template", "RQ_is_function_template",
    "RQ_is_variable_template", "RQ_is_static_member_function_template",
    "RQ_is_nonstatic_member_function_template", "RQ_is_constructor_template",
    "RQ_is_destructor_template", "RQ_is_concept", "RQ_is_specialization",
    "RQ_is_partial_specialization", "RQ_is_explicit_specialization",
    "RQ_is_implicit_instantiation", "RQ_is_explicit_instantiation",
    "RQ_is_direct_base", "RQ_is_virtual_base", "RQ_is_function_parameter",
    "RQ_is_template_parameter", "RQ_is_type_template_parameter",
    "RQ_is_nontype_template_parameter", "RQ_is_template_template_parameter",
    "RQ_is_expression", "RQ_is_lvalue", "RQ_is_xvalue", "RQ_is_rvalue",
    "RQ_is_value", "RQ_is_local", "RQ_is_class_member",
    "RQ_has_default_access", "RQ_get_decl_traits", "RQ_get_linkage_traits",
    "RQ_get_access_traits", "RQ_get_type_traits", "RQ_get_entity",
    "RQ_get_parent", "RQ_get_type", "RQ_get_return_type",
    "RQ_get_this_ref_type", "RQ_get_definition", "RQ_get_begin",
    "RQ_get_next", "RQ_get_name", "RQ_get_display_name", "RQ_get_attribute",
    "RQ_has_attribute">>

\* The numeric value of an enumerator: its place in the enumeration.
Ord(Q) == (CHOOSE i \in 1..Len(ReflectionQuery) : ReflectionQuery[i] = Q) - 1

RQ_first_predicate == "RQ_is_invalid"
RQ_last_predicate == "RQ_has_default_access"
RQ_first_trait == "RQ_get_decl_traits"
RQ_last_trait == "RQ_get_type_traits"
RQ_first_assoc == "RQ_get_entity"
RQ_last_assoc == "RQ_get_next"
RQ_first_name == "RQ_get_name"
RQ_last_name == "RQ_get_display_name"

isPredicateQuery(Q) ==
  Ord(RQ_first_predicate) <= Ord(Q) /\ Ord(Q) <= Ord(RQ_last_predicate)

isTraitQuery(Q) ==
  Ord(RQ_first_trait) <= Ord(Q) /\ Ord(Q) <= Ord(RQ_last_trait)

isAssociatedReflectionQuery(Q) ==
  Ord(RQ_first_assoc) <= Ord(Q) /\ Ord(Q) <= Ord(RQ_last_assoc)

isNameQuery(Q) ==
  Ord(RQ_first_name) <= Ord(Q) /\ Ord(Q) <= Ord(RQ_last_name)

AllQueries == {ReflectionQuery[i] : i \in 1..Len(ReflectionQuery)}

\* Reflection::EvaluatePredicate
EvaluatePredicate(R, Q) ==
  IF ~isPredicateQuery(Q) THEN Halt
  ELSE CASE Q = "RQ_is_invalid" -> isInvalid(R)
       [] Q = "RQ_is_entity" -> isEntity(R)
       [] Q = "RQ_is_unnamed" -> isUnnamed(R)
       [] Q = "RQ_is_variable" -> isVariable(R)
       [] Q = "RQ_is_function" -> isFunction(R)
       [] Q = "RQ_is_class" -> isClass(R)
       [] Q = "RQ_is_union" -> isUnion(R)
       [] Q = "RQ_is_unscoped_enum" -> isUnscopedEnum(R)
       [] Q = "RQ_is_scoped_enum" -> isScopedEnum(R)
       [] Q = "RQ_is_enumerator" -> isEnumerator(R)
       [] Q = "RQ_is_bitfield" -> isBitField(R)
       [] Q = "RQ_is_static_data_member" -> isStaticDataMember(R)
       [] Q = "RQ_is_nonstatic_data_member" -> isNonstaticDataMember(R)
       [] Q = "RQ_is_static_member_function" -> isStaticMemberFunction(R)
       [] Q = "RQ_is_nonstatic_member_function" -> isNonstaticMemberFunction(R)
       [] Q = "RQ_is_copy_assignment_operator" -> isCopyAssignmentOperator(R)
       [] Q = "RQ_is_move_assignment_operator" -> isMoveAssignmentOperator(R)
       [] Q = "RQ_is_constructor" -> isConstructor(R)
       [] Q = "RQ_is_default_constructor" -> isDefaultConstructor(R)
       [] Q = "RQ_is_copy_constructor" -> isCopyConstructor(R)
       [] Q = "RQ_is_move_constructor" -> isMoveConstructor(R)
       [] Q = "RQ_is_destructor" -> isDestructor(R)
       [] Q = "RQ_is_type" -> isType(R)
       [] Q = "RQ_is_function_type" -> isFunctionType(R)
       [] Q = "RQ_is_class_type" -> isClassType(R)
       [] Q = "RQ_is_union_type" -> isUnionType(R)
       [] Q = "RQ_is_enum_type" -> isEnumType(R)
       [] Q = "RQ_is_scoped_enum_type" -> isScopedEnumType(R)
       [] Q = "RQ_is_void_type" -> isVoidType(R)
       [] Q = "RQ_is_null_pointer_type" -> isNullPtrType(R)
       [] Q = "RQ_is_integral_type" -> isIntegralType(R)
       [] Q = "RQ_is_floating_point_type" -> isFloatingPointType(R)
       [] Q = "RQ_is_array_type" -> isArrayType(R)
       [] Q = "RQ_is_pointer_type" -> isPointerType(R)
       [] Q = "RQ_is_lvalue_reference_type" -> isLValueReferenceType(R)
       [] Q = "RQ_is_rvalue_reference_type" -> isRValueReferenceType(R)
       [] Q = "RQ_is_member_object_pointer_type" -> isMemberObjectPointerType(R)
       [] Q = "RQ_is_member_function_pointer_type" -> isMemberFunctionPointerType(R)
       [] Q = "RQ_is_closure_type" -> isClosureType(R)
       [] Q = "RQ_is_namespace" -> isNamespace(R)
       [] Q = "RQ_is_namespace_alias" -> isNamespaceAlias(R)
       [] Q = "RQ_is_type_alias" -> isTypeAlias(R)
       [] Q = "RQ_is_template" -> isTemplate(R)
       [] Q = "RQ_is_class_template" -> isClassTemplate(R)
       [] Q = "RQ_is_alias_template" -> isAliasTemplate(R)
       [] Q = "RQ_is_function_template" -> isFunctionTemplate(R)
       [] Q = "RQ_is_variable_template" -> isVariableTemplate(R)
       [] Q = "RQ_is_static_member_function_template" -> isStaticMemberFunctionTemplate(R)
       [] Q = "RQ_is_nonstatic_member_function_template" -> isNonstaticMemberFunctionTemplate(R)
       [] Q = "RQ_is_constructor_template" -> isConstructorTemplate(R)
       [] Q = "RQ_is_destructor_template" -> isDestructorTemplate(R)
       [] Q = "RQ_is_concept" -> isConcept(R)
       [] Q = "RQ_is_specialization" -> isSpecialization(R)
       [] Q = "RQ_is_partial_specialization" -> isPartialSpecialization(R)
       [] Q = "RQ_is_explicit_specialization" -> isExplicitSpecialization(R)
       [] Q = "RQ_is_implicit_instantiation" -> isImplicitInstantiation(R)
       [] Q = "RQ_is_explicit_instantiation" -> isExplicitInstantiation(R)
       [] Q = "RQ_is_direct_base" -> isDirectBase(R)
       [] Q = "RQ_is_virtual_base" -> isVirtualBase(R)
       [] Q = "RQ_is_function_parameter" -> isFunctionParameter(R)
       [] Q = "RQ_is_template_parameter" -> isTemplateParameter(R)
       [] Q = "RQ_is_type_template_parameter" -> isTypeTemplateParameter(R)
       [] Q = "RQ_is_nontype_template_parameter" -> isNontypeTemplateParameter(R)
       [] Q = "RQ_is_template_template_parameter" -> isTemplateTemplateParameter(R)
       [] Q = "RQ_is_expression" -> isExpression(R)
       [] Q = "RQ_is_lvalue" -> isLValue(R)
       [] Q = "RQ_is_xvalue" -> isXValue(R)
       [] Q = "RQ_is_rvalue" -> isRValue(R)
       [] Q = "RQ_is_value" -> isValue(R)
       [] Q = "RQ_is_local" -> isLocal(R)
       [] Q = "RQ_is_class_member" -> isClassMember(R)
       [] Q = "RQ_has_default_access" -> hasDefaultAccess(R)
       [] OTHER -> Halt

-----------------------------------------------------------------------------
(* Trait records.  A record is the sequence of its bit-fields, each a      *)
(* <<value, width>> pair in declaration order; the first field occupies    *)
(* the least significant bits of the 32-bit carrier.                       *)

RECURSIVE Pow2(_)
Pow2(n) == IF n = 0 THEN 1 ELSE 2 * Pow2(n - 1)

\* The bits the fields from the i-th on put into the carrier, the i-th
\* starting at bit pos.  A value is truncated to the width of its bit-field;
\* only the 32 bits of the carrier are copied.
RECURSIVE PackFrom(_, _, _)
PackFrom(S, i, pos) ==
  IF i > Len(S) \/ pos >= 32 THEN 0
  ELSE LET room == 32 - pos
           w == IF S[i][2] < room THEN S[i][2] ELSE room
           v == IF w > 30 THEN S[i][1] ELSE S[i][1] % Pow2(w)
       IN (IF v = 0 THEN 0 ELSE v * Pow2(pos)) +
          PackFrom(S, i + 1, pos + S[i][2])

\* TraitsToUnsignedInt: the record copied into a uint32.
TraitsToUnsignedInt(S) == PackFrom(S, 1, 0)

\* makeTraits
makeTraits(S) == UIntVal(TraitsToUnsignedInt(S))

\* SuccessTraits.  A field of -1 stands for an encoder that ran into
\* llvm_unreachable while computing it.
SuccessTraits(S) ==
  IF \E i \in 1..Len(S) : S[i][1] < 0 THEN Halt ELSE Success(makeTraits(S))

\* enum LinkageTrait and getLinkage
getLinkage(D) ==
  CASE D.link = "NoLinkage" -> 0
    [] D.link = "InternalLinkage" -> 1
    [] D.link = "ExternalLinkage" -> 2
    [] OTHER -> -1

\* enum AccessTrait and getAccess
getAccess(D) ==
  CASE D.access = "AS_public" -> 1
    [] D.access = "AS_private" -> 2
    [] D.access = "AS_protected" -> 3
    [] D.access = "AS_none" -> 0
    [] OTHER -> -1

\* enum StorageTrait and getStorage
getStorage(D) ==
  CASE D.storage \in {"SD_FullExpression", "SD_Automatic"} -> 0
    [] D.storage = "SD_Thread" -> 2
    [] D.storage = "SD_Static" -> 1
    [] D.storage = "SD_Dynamic" -> 3
    [] OTHER -> -1

\* A one-bit flag of a declaration.
Bit(D, p) == IF p \in D.props THEN 1 ELSE 0

\* A faulty getVariableTraits that declares Access before Linkage.
getVariableTraits_swapped(D) ==
  <<<<getAccess(D), 2>>, <<getLinkage(D), 2>>, <<getStorage(D), 2>>,
    <<Bit(D, "constexpr"), 1>>, <<Bit(D, "defined"), 1>>,
    <<Bit(D, "inline"), 1>>, <<0, 23>>>>

\* struct VariableTraits and getVariableTraits
getVariableTraits(D) ==
  <<<<getLinkage(D), 2>>, <<getAccess(D), 2>>, <<getStorage(D), 2>>,
    <<Bit(D, "constexpr"), 1>>, <<Bit(D, "defined"), 1>>,
    <<Bit(D, "inline"), 1>>, <<0, 23>>>>

\* struct FieldTraits and getFieldTraits
getFieldTraits(D) ==
  <<<<getLinkage(D), 2>>, <<getAccess(D), 2>>, <<Bit(D, "mutable"), 1>>,
    <<0, 27>>>>

\* getNothrow
getNothrow(D) ==
  IF D.ty.cls = "FunctionProto" THEN Bit(D, "nothrow") ELSE 0

\* struct FunctionTraits and getFunctionTraits
getFunctionTraits(D) ==
  <<<<getLinkage(D), 2>>, <<getAccess(D), 2>>, <<Bit(D, "constexpr"), 1>>,
    <<getNothrow(D), 1>>, <<Bit(D, "defined"), 1>>, <<Bit(D, "inline"), 1>>,
    <<Bit(D, "deleted"), 1>>, <<0, 23>>>>

\* struct MethodTraits, given the fields after Access as <<name, value>>
\* pairs; a field that is not assigned keeps the zero of MethodTraits().
MethodTraits(D, Kind, Set) ==
  LET F(name) == IF \E x \in Set : x[1] = name
                 THEN (CHOOSE x \in Set : x[1] = name)[2] ELSE 0
  IN <<<<getLinkage(D), 2>>, <<getAccess(D), 2>>, <<Kind, 2>>,
       <<F("Constexpr"), 1>>, <<F("Explicit"), 1>>, <<F("Virtual"), 1>>,
       <<F("Pure"), 1>>, <<F("Final"), 1>>, <<F("Override"), 1>>,
       <<F("Nothrow"), 1>>, <<F("Defined"), 1>>, <<F("Inline"), 1>>,
       <<F("Deleted"), 1>>, <<F("Defaulted"), 1>>, <<F("Trivial"), 1>>,
       <<F("DefaultCtor"), 1>>, <<F("CopyCtor"), 1>>, <<F("MoveCtor"), 1>>,
       <<F("CopyAssign"), 1>>, <<F("MoveAssign"), 1>>, <<0, 9>>>>

\* enum MethodKind { Method, Constructor, Destructor, Conversion }
\* getMethodTraits(const CXXConstructorDecl *)
getMethodTraitsCtor(D) ==
  MethodTraits(D, 1,
    {<<"Constexpr", Bit(D, "constexpr")>>, <<"Nothrow", getNothrow(D)>>,
     <<"Defined", Bit(D, "defined")>>, <<"Inline", Bit(D, "inline")>>,
     <<"Deleted", Bit(D, "deleted")>>, <<"Defaulted", Bit(D, "defaulted")>>,
     <<"Trivial", Bit(D, "trivial")>>,
     <<"DefaultCtor", Bit(D, "defaultCtor")>>,
     <<"CopyCtor", Bit(D, "copyCtor")>>, <<"MoveCtor", Bit(D, "moveCtor")>>})

\* getMethodTraits(const CXXDestructorDecl *)
getMethodTraitsDtor(D) ==
  MethodTraits(D, 2,
    {<<"Virtual", Bit(D, "virtual")>>, <<"Pure", Bit(D, "pure")>>,
     <<"Final", Bit(D, "final")>>, <<"Override", Bit(D, "override")>>,
     <<"Nothrow", getNothrow(D)>>, <<"Defined", Bit(D, "defined")>>,
     <<"Inline", Bit(D, "inline")>>, <<"Deleted", Bit(D, "deleted")>>,
     <<"Defaulted", Bit(D, "defaulted")>>, <<"Trivial", Bit(D, "trivial")>>})

\* getMethodTraits(const CXXConversionDecl *)
getMethodTraitsConv(D) ==
  MethodTraits(D, 3,
    {<<"Constexpr", Bit(D, "constexpr")>>, <<"Explicit", Bit(D, "explicit")>>,
     <<"Virtual", Bit(D, "virtual")>>, <<"Pure", Bit(D, "pure")>>,
     <<"Final", Bit(D, "final")>>, <<"Override", Bit(D, "override")>>,
     <<"Nothrow", getNothrow(D)>>, <<"Defined", Bit(D, "defined")>>,
     <<"Inline", Bit(D, "inline")>>, <<"Deleted", Bit(D, "deleted")>>})

\* getMethodTraits(const CXXMethodDecl *)
getMethodTraits(D) ==
  MethodTraits(D, 0,
    {<<"Constexpr", Bit(D, "constexpr")>>, <<"Virtual", Bit(D, "virtual")>>,
     <<"Pure", Bit(D, "pure")>>, <<"Final", Bit(D, "final")>>,
     <<"Override", Bit(D, "override")>>, <<"Nothrow", getNothrow(D)>>,
     <<"Defined", Bit(D, "defined")>>, <<"Inline", Bit(D, "inline")>>,
     <<"Deleted", Bit(D, "deleted")>>,
     <<"CopyAssign", Bit(D, "copyAssign")>>,
     <<"MoveAssign", Bit(D, "moveAssign")>>})

\* struct ValueTraits and getValueTraits
getValueTraits(D) == <<<<getLinkage(D), 2>>, <<getAccess(D), 2>>, <<0, 28>>>>

\* struct NamespaceTraits and getNamespaceTraits
getNamespaceTraits(D) ==
  <<<<getLinkage(D), 2>>, <<getAccess(D), 2>>, <<Bit(D, "inline"), 1>>,
    <<0, 27>>>>

\* A faulty makeDeclTraits that tests for a member function before it tests
\* for the special member functions.
makeDeclTraits_methodFirst(R) ==
  LET D == getReachableDecl(R)
  IN IF D = NullDecl THEN Error(R)
     ELSE CASE D.kind \in VarKinds -> SuccessTraits(getVariableTraits(D))
            [] D.kind = "Field" -> SuccessTraits(getFieldTraits(D))
            [] D.kind \in MethodKinds -> SuccessTraits(getMethodTraits(D))
            [] D.kind = "Function" -> SuccessTraits(getFunctionTraits(D))
            [] D.kind = "EnumConstant" -> SuccessTraits(getValueTraits(D))
            [] D.kind = "Namespace" -> SuccessTraits(getNamespaceTraits(D))
            [] OTHER -> Error(R)

\* makeDeclTraits
makeDeclTraits(R) ==
  LET D == getReachableDecl(R)
  IN IF D = NullDecl THEN Error(R)
     ELSE CASE D.kind \in VarKinds -> SuccessTraits(getVariableTraits(D))
            [] D.kind = "Field" -> SuccessTraits(getFieldTraits(D))
            [] D.kind = "CXXConstructor" ->
                 SuccessTraits(getMethodTraitsCtor(D))
            [] D.kind = "CXXDestructor" ->
                 SuccessTraits(getMethodTraitsDtor(D))
            [] D.kind = "CXXConversion" ->
                 SuccessTraits(getMethodTraitsConv(D))
            [] D.kind = "CXXMethod" -> SuccessTraits(getMethodTraits(D))
            [] D.kind = "Function" -> SuccessTraits(getFunctionTraits(D))
            [] D.kind = "EnumConstant" -> SuccessTraits(getValueTraits(D))
            [] D.kind = "Namespace" -> SuccessTraits(getNamespaceTraits(D))
            [] OTHER -> Error(R)

\* A faulty getLinkageTraits that pads the record as AccessTraits is padded.
getLinkageTraits_padded(D) ==
  <<<<0, 2>>, <<getLinkage(D), 2>>, <<0, 28>>>>

\* struct LinkageTraits and getLinkageTraits
getLinkageTraits(D) == <<<<getLinkage(D), 2>>, <<0, 30>>>>

\* makeLinkageTraits
makeLinkageTraits(R) ==
  LET D == getReachableDecl(R)
  IN IF D # NullDecl /\ D.kind \in NamedKinds
     THEN SuccessTraits(getLinkageTraits(D))
     ELSE Error(R)

\* A faulty getAccessTraits that leaves out the two padding bits.
getAccessTraits_unpadded(D) == <<<<getAccess(D), 2>>, <<0, 30>>>>

\* struct AccessTraits and getAccessTraits
getAccessTraits(D) == <<<<0, 2>>, <<getAccess(D), 2>>, <<0, 28>>>>

\* makeAccessTraits
makeAccessTraits(R) ==
  LET D == getReachableDecl(R)
  IN IF D # NullDecl THEN SuccessTraits(getAccessTraits(D)) ELSE Error(R)

\* enum ClassKindTrait and getClassKind
getClassKind(D) ==
  CASE D.tagkind = "struct" -> 0
    [] D.tagkind = "class" -> 1
    [] D.tagkind = "union" -> 2
    [] OTHER -> -1

\* struct ClassTraits and getClassTraits
getClassTraits(D) ==
  LET Complete == Bit(D, "defined")
      If(p) == IF Complete = 1 THEN Bit(D, p) ELSE 0
  IN <<<<getLinkage(D), 2>>, <<getAccess(D), 2>>, <<getClassKind(D), 2>>,
       <<Complete, 1>>, <<If("polymorphic"), 1>>, <<If("abstract"), 1>>,
       <<If("final"), 1>>, <<If("empty"), 1>>, <<0, 21>>>>

\* struct EnumTraits and getEnumTraits
getEnumTraits(D) ==
  <<<<getLinkage(D), 2>>, <<getAccess(D), 2>>, <<Bit(D, "scoped"), 1>>,
    <<Bit(D, "complete"), 1>>, <<0, 26>>>>

\* A faulty makeTypeTraits that answers zero where no tag type is named.
makeTypeTraits_zero(R) ==
  LET T == getCanonicalType(R)
      TD == getAsTagDecl(T)
  IN IF T # NullType /\ TD # NullDecl
     THEN CASE TD.kind \in CXXRecordKinds -> SuccessTraits(getClassTraits(TD))
            [] TD.kind = "Enum" -> SuccessTraits(getEnumTraits(TD))
            [] OTHER -> Halt
     ELSE Success(UIntVal(0))

\* makeTypeTraits
makeTypeTraits(R) ==
  LET T == getCanonicalType(R)
      TD == getAsTagDecl(T)
  IN IF T # NullType /\ TD # NullDecl
     THEN CASE TD.kind \in CXXRecordKinds -> SuccessTraits(getClassTraits(TD))
            [] TD.kind = "Enum" -> SuccessTraits(getEnumTraits(TD))
            [] OTHER -> Halt
     ELSE Error(R)

\* A faulty GetTraits that reports a query outside the trait band as an
\* ordinary failure.
GetTraits_lenient(R, Q) ==
  IF ~isTraitQuery(Q) THEN Error(R)
  ELSE CASE Q = "RQ_get_decl_traits" -> makeDeclTraits(R)
         [] Q = "RQ_get_linkage_traits" -> makeLinkageTraits(R)
         [] Q = "RQ_get_access_traits" -> makeAccessTraits(R)
         [] Q = "RQ_get_type_traits" -> makeTypeTraits(R)
         [] OTHER -> Halt

\* Reflection::GetTraits
GetTraits(R, Q) ==
  IF ~isTraitQuery(Q) THEN Halt
  ELSE CASE Q = "RQ_get_decl_traits" -> makeDeclTraits(R)
         [] Q = "RQ_get_linkage_traits" -> makeLinkageTraits(R)
         [] Q = "RQ_get_access_traits" -> makeAccessTraits(R)
         [] Q = "RQ_get_type_traits" -> makeTypeTraits(R)
         [] OTHER -> Halt

-----------------------------------------------------------------------------
(* Associated reflections.                                                 *)

\* makeReflection(APValue &): the invalid reflection.
makeReflectionInvalid == Success(ReflVal(InvalidRefl))

\* makeReflection(const Decl *, APValue &)
makeReflectionDecl(D) ==
  IF D = NullDecl THEN makeReflectionInvalid ELSE Success(ReflVal(DeclRefl(D)))

\* makeReflection(const DeclContext *, APValue &)
makeReflectionContext(DC) ==
  IF DC = NullDecl THEN makeReflectionInvalid
  ELSE Success(ReflVal(DeclRefl(DC)))

\* makeReflection(QualType, APValue &)
makeReflectionType(T) ==
  IF T = NullType THEN makeReflectionInvalid ELSE Success(ReflVal(TypeRefl(T)))

\* makeReflection(const Type *, APValue &): asserts that T is not null.
makeReflectionTypePtr(T) ==
  IF T = NullType THEN Halt ELSE makeReflectionType(T)

\* A faulty getEntity that yields types and declarations as they were
\* reflected, without canonicalizing them.
getEntity_asReflected(R) ==
  IF isTypeKind(R) THEN makeReflectionType(getAsType(R))
  ELSE IF isDeclarationKind(R) THEN makeReflectionDecl(getAsDeclaration(R))
  ELSE IF isExpressionKind(R)
  THEN IF getReachableDecl(R) # NullDecl
       THEN makeReflectionDecl(getReachableDecl(R))
       ELSE Error(R)
  ELSE IF isBaseKind(R) THEN makeReflectionType(R.base.ty)
  ELSE Error(R)

\* getEntity
getEntity(R) ==
  IF isTypeKind(R) THEN makeReflectionType(CanonicalTypeOf(getAsType(R)))
  ELSE IF isDeclarationKind(R)
  THEN makeReflectionDecl(getCanonicalDecl(getAsDeclaration(R)))
  ELSE IF isExpressionKind(R)
  THEN IF getReachableDecl(R) # NullDecl
       THEN makeReflectionDecl(getReachableDecl(R))
       ELSE Error(R)
  ELSE IF isBaseKind(R) THEN makeReflectionType(CanonicalTypeOf(R.base.ty))
  ELSE Error(R)

\* A faulty getParent that yields the reachable declaration itself.
getParent_self(R) ==
  IF getReachableDecl(R) # NullDecl
  THEN makeReflectionDecl(getReachableDecl(R))
  ELSE Error(R)

\* getParent
getParent(R) ==
  IF getReachableDecl(R) # NullDecl
  THEN makeReflectionContext(ContextDecl(getReachableDecl(R).ctx))
  ELSE Error(R)

\* TypeDecl::getTypeForDecl(): the type a type declaration declares.
getTypeForDecl(D) ==
  CASE D.kind \in CXXRecordKinds -> Ty("Record", D.canon)
    [] D.kind = "Enum" -> Ty("Enum", D.canon)
    [] OTHER -> D.ty

\* A faulty getType that knows type declarations only.
getType_typeDeclsOnly(R) ==
  LET D == getReachableDecl(R)
  IN IF getExpr(R) # NullExpr THEN makeReflectionType(getExpr(R).ty)
     ELSE IF D # NullDecl /\ D.kind \in TypeDeclKinds
     THEN makeReflectionTypePtr(getTypeForDecl(D))
     ELSE Error(R)

\* getType
getType(R) ==
  LET D == getReachableDecl(R)
  IN IF getExpr(R) # NullExpr THEN makeReflectionType(getExpr(R).ty)
     ELSE IF D # NullDecl /\ D.kind \in TypeDeclKinds
     THEN makeReflectionTypePtr(getTypeForDecl(D))
     ELSE IF D # NullDecl /\ D.kind \in ValueKinds
     THEN makeReflectionType(D.ty)
     ELSE Error(R)

\* getReturnType
getReturnType(R) ==
  LET D == getReachableDecl(R)
  IN IF D # NullDecl /\ D.kind \in FunctionKinds
     THEN makeReflectionType(D.rty)
     ELSE Error(R)

\* A faulty getThisRefType that reports the query as not defined for the
\* reflection rather than as unimplemented.
getThisRefType_notDefined(R) == Error(R)

\* getThisRefType
getThisRefType(R) == ErrorUnimplemented(R)

\* getDefinition
getDefinition(R) ==
  LET TD == getAsTypeDecl(R)
  IN IF TD # NullDecl /\ TD.kind \in TagKinds
     THEN makeReflectionDecl(TD)
     ELSE Error(R)

\* A faulty isReflectableDecl that lets the injected class name through.
isReflectableDecl_injected(D) ==
  IF D.kind = "AccessSpec" THEN FALSE ELSE TRUE

\* isReflectableDecl
isReflectableDecl(D) ==
  IF D.kind = "AccessSpec" THEN FALSE
  ELSE IF D.kind \in CXXRecordKinds /\ "injected" \in D.props THEN FALSE
  ELSE TRUE

\* findNextMember
RECURSIVE findNextMember(_)
findNextMember(D) ==
  IF D # NullDecl /\ ~isReflectableDecl(D)
  THEN findNextMember(getNextDeclInContext(D))
  ELSE D

\* A faulty getFirstMember that yields the first child, reflectable or not.
getFirstMember_unfiltered(DC) ==
  IF Children(DC) = <<>> THEN NullDecl ELSE Children(DC)[1]

\* getFirstMember: *DC->decls_begin() is null for a context with no child.
getFirstMember(DC) ==
  findNextMember(IF Children(DC) = <<>> THEN NullDecl ELSE Children(DC)[1])

\* A faulty getNextMember that steps over one sibling.
getNextMember_skipping(D) ==
  findNextMember(getNextDeclInContext(getNextDeclInContext(D)))

\* getNextMember
getNextMember(D) == findNextMember(getNextDeclInContext(D))

\* getReachableDeclContext
getReachableDeclContext(R) ==
  IF getReachableDecl(R) # NullDecl
  THEN DynCast(getReachableDecl(R), DeclContextKinds)
  ELSE NullDecl

\* getBegin
getBegin(R) ==
  IF getReachableDeclContext(R) # NullDecl
  THEN makeReflectionDecl(getFirstMember(getReachableDeclContext(R)))
  ELSE Error(R)

\* getNext
getNext(R) ==
  IF getReachableDecl(R) # NullDecl
  THEN makeReflectionDecl(getNextMember(getReachableDecl(R)))
  ELSE Error(R)

\* Reflection::GetAssociatedReflection
GetAssociatedReflection(R, Q) ==
  IF ~isAssociatedReflectionQuery(Q) THEN Halt
  ELSE CASE Q = "RQ_get_entity" -> getEntity(R)
         [] Q = "RQ_get_parent" -> getParent(R)
         [] Q = "RQ_get_type" -> getType(R)
         [] Q = "RQ_get_return_type" -> getReturnType(R)
         [] Q = "RQ_get_this_ref_type" -> getThisRefType(R)
         [] Q = "RQ_get_definition" -> getDefinition(R)
         [] Q = "RQ_get_begin" -> getBegin(R)
         [] Q = "RQ_get_next" -> getNext(R)
         [] OTHER -> Halt

-----------------------------------------------------------------------------
(* Names.                                                                  *)

\* QualType::getAsString with SuppressTagKeyword: the spelling of a type.
getAsString(T) ==
  CASE T.sugar = "alias" -> "alias_t"
    [] T.cls \in {"Record", "Enum"} -> DeclById(T.tag).ident
    [] T.cls = "Int" -> "int"
    [] T.cls = "Void" -> "void"
    [] T.cls = "Float" -> "float"
    [] T.cls = "NullPtr" -> "nullptr_t"
    [] T.cls = "Pointer" -> "int *"
    [] T.cls = "LValueReference" -> "int &"
    [] T.cls = "RValueReference" -> "int &&"
    [] T.cls = "Array" -> "int [2]"
    [] T.cls = "FunctionProto" -> "void ()"
    [] T.cls = "MemberDataPointer" -> "int K::*"
    [] T.cls = "MemberFunctionPointer" -> "void (K::*)()"
    [] OTHER -> ""

\* MakeConstCharPointer and its evaluation as a constant expression: the
\* characters of Str as a compile-time string value.
MakeConstCharPointer(Str) == StrVal(Str)

\* getName.  dyn_cast<NamedDecl> of an absent reachable declaration is a
\* use of a null pointer.
getName(R) ==
  IF isTypeKind(R)
  THEN Success(MakeConstCharPointer(getAsString(getQualType(getAsType(R)))))
  ELSE IF getReachableDecl(R) = NullDecl THEN Halt
  ELSE IF getReachableDecl(R).kind \in NamedKinds /\
          getReachableDecl(R).ident # ""
  THEN Success(MakeConstCharPointer(getReachableDecl(R).ident))
  ELSE Error(R)

\* Reflection::GetName
GetName(R, Q) ==
  IF ~isNameQuery(Q) THEN Halt
  ELSE IF isInvalidKind(R) THEN Error(R)
  ELSE CASE Q \in {"RQ_get_name", "RQ_get_display_name"} -> getName(R)
         [] OTHER -> Halt

-----------------------------------------------------------------------------
(* User-defined attributes.                                                *)

\* Type::getCanonicalTypeUnqualified
getCanonicalTypeUnqualified(T) == [CanonicalTypeOf(T) EXCEPT !.cv = FALSE]

\* Match
Match(a, b) == getCanonicalTypeUnqualified(a) = getCanonicalTypeUnqualified(b)

\* APValue::getReflectedType of the AttributeType operand.
getReflectedType(AttributeType) == AttributeType.type

\* A call that returns false without a diagnostic.
ReturnFalse == [ret |-> "false", set |-> FALSE, val |-> Unset, dg |-> <<>>]

\* The range-for over D->specific_attrs<UserDefinedAttr>(): the index of the
\* first attribute from i on that matches ReflectedAttribute, 0 when the loop
\* ends without one.
RECURSIVE ScanAttrs(_, _, _)
ScanAttrs(UDs, ReflectedAttribute, i) ==
  IF i > Len(UDs) THEN 0
  ELSE IF Match(UDs[i].ty, ReflectedAttribute) THEN i
  ELSE ScanAttrs(UDs, ReflectedAttribute, i + 1)

\* A faulty scan that keeps the last matching attribute.
RECURSIVE ScanAttrs_last(_, _, _)
ScanAttrs_last(UDs, ReflectedAttribute, i) ==
  IF i > Len(UDs) THEN 0
  ELSE IF ScanAttrs_last(UDs, ReflectedAttribute, i + 1) # 0
       THEN ScanAttrs_last(UDs, ReflectedAttribute, i + 1)
  ELSE IF Match(UDs[i].ty, ReflectedAttribute) THEN i
  ELSE 0

\* A faulty GetUserDefinedAttribute that returns the value of the last
\* matching attribute.
GetUserDefinedAttribute_last(R, AttributeType) ==
  LET ReflectedAttribute == getReflectedType(AttributeType)
      D == getReachableDecl(R)
      hit == ScanAttrs_last(D.attrs, ReflectedAttribute, 1)
  IN IF ReflectedAttribute = NullType THEN ReturnFalse
     ELSE IF D # NullDecl /\ hit # 0 THEN Success(D.attrs[hit].val)
     ELSE ReturnFalse

\* Reflection::GetUserDefinedAttribute
GetUserDefinedAttribute(R, AttributeType) ==
  LET ReflectedAttribute == getReflectedType(AttributeType)
      D == getReachableDecl(R)
      hit == ScanAttrs(D.attrs, ReflectedAttribute, 1)
  IN IF ReflectedAttribute = NullType THEN ReturnFalse
     ELSE IF D # NullDecl /\ hit # 0 THEN Success(D.attrs[hit].val)
     ELSE ReturnFalse

\* A faulty HasUserDefinedAttribute that looks only at the declaration of a
\* declaration reflection.
HasUserDefinedAttribute_declOnly(R, AttributeType) ==
  LET ReflectedAttribute == getReflectedType(AttributeType)
      D == getAsDeclaration(R)
  IN IF ReflectedAttribute = NullType THEN ReturnFalse
     ELSE IF isDeclarationKind(R) /\ D # NullDecl
             /\ ScanAttrs(D.attrs, ReflectedAttribute, 1) # 0
     THEN SuccessTrue
     ELSE SuccessFalse

\* Reflection::HasUserDefinedAttribute
HasUserDefinedAttribute(R, AttributeType) ==
  LET ReflectedAttribute == getReflectedType(AttributeType)
      D == getReachableDecl(R)
  IN IF ReflectedAttribute = NullType THEN ReturnFalse
     ELSE IF D # NullDecl /\ ScanAttrs(D.attrs, ReflectedAttribute, 1) # 0
     THEN SuccessTrue
     ELSE SuccessFalse

-----------------------------------------------------------------------------
(* Equality.                                                               *)

\* A faulty EqualTypes that compares the types as written.
EqualTypes_written(A, B) == A = B

\* EqualTypes
EqualTypes(A, B) == CanonicalTypeOf(A) = CanonicalTypeOf(B)

\* A faulty EqualDecls that compares the declarations themselves, not
\* their canonical declarations.
EqualDecls_byIdentity(A, B) == A.id = B.id

\* EqualDecls
EqualDecls(A, B) == getCanonicalDecl(A).id = getCanonicalDecl(B).id

\* A faulty Equal that accepts an invalid left operand before comparing the
\* kinds.
Equal_invalidFirst(A, B) ==
  IF A.kind = "RK_invalid" THEN TRUE
  ELSE IF A.kind # B.kind THEN FALSE
  ELSE CASE A.kind = "RK_type" ->
              EqualTypes(getQualType(A.type), getQualType(B.type))
         [] A.kind = "RK_declaration" -> EqualDecls(A.decl, B.decl)
         [] OTHER -> FALSE

\* Reflection::Equal
Equal(A, B) ==
  IF A.kind # B.kind THEN FALSE
  ELSE CASE A.kind = "RK_invalid" -> TRUE
         [] A.kind = "RK_type" ->
              EqualTypes(getQualType(A.type), getQualType(B.type))
         [] A.kind = "RK_declaration" -> EqualDecls(A.decl, B.decl)
         [] OTHER -> FALSE

-----------------------------------------------------------------------------
(* The programs and reflection values Init draws from.                     *)

RECURSIVE SeqsUpTo(_, _)
SeqsUpTo(S, n) ==
  IF n = 0 THEN {<<>>}
  ELSE SeqsUpTo(S, n - 1) \cup
       {Append(q, x) : q \in {r \in SeqsUpTo(S, n - 1) : Len(r) = n - 1},
                       x \in S}

\* The children a scope of each kind can have.  A defined struct starts
\* with its injected class name; a struct without children is only declared.
MemberLists(sk) ==
  CASE sk = "struct" ->
         {<<>>} \cup {<<"InjectedClassName">> \o q :
                        q \in SeqsUpTo({"Field", "AccessSpec", "CXXMethod"},
                                       MaxMembers)}
    [] sk = "enum" -> SeqsUpTo({"EnumConstant"}, MaxMembers)
    [] OTHER -> SeqsUpTo({"Var", "Function"}, MaxMembers)

ScopeKinds == {"struct", "enum", "namespace"}

\* The extra declaration, at translation-unit level unless local to fn.
Extra(kind, ident) == [MkDecl(8, kind, ident) EXCEPT !.pos = 7]

Local(D) == [D EXCEPT !.ctx = "fn", !.lex = "fn", !.pos = 1,
                      !.link = "NoLinkage"]

FnTy == Ty("FunctionProto", 0)

AFunction(kind) ==
  [Extra(kind, "f") EXCEPT !.ty = FnTy, !.rty = IntTy, !.props = {"defined"}]

Extras ==
  { Extra("Namespace", "N"),
    [Extra("Namespace", "") EXCEPT !.props = {"inline"},
                                   !.link = "InternalLinkage"],
    Extra("NamespaceAlias", "NA"),
    [Extra("Typedef", "T") EXCEPT !.ty = AliasOf(IntTy)],
    [Extra("TypeAlias", "T") EXCEPT !.ty = AliasOf(Ty("Record", 2))],
    [Extra("Enum", "") EXCEPT !.tagkind = "enum",
                              !.props = {"defined", "complete"}],
    [Extra("CXXRecord", "C") EXCEPT !.tagkind = "class"],
    [Extra("ClassTemplateSpecialization", "C")
       EXCEPT !.tagkind = "struct", !.tsk = "TSK_ImplicitInstantiation",
              !.props = {"defined", "complete", "empty"}],
    [Extra("ClassTemplateSpecialization", "C")
       EXCEPT !.tagkind = "class", !.tsk = "TSK_ExplicitSpecialization"],
    [Extra("ClassTemplatePartialSpecialization", "C")
       EXCEPT !.tagkind = "struct", !.tsk = "TSK_ExplicitSpecialization"],
    [Extra("Var", "v") EXCEPT !.ty = IntTy, !.props = {"defined"}],
    [Extra("Var", "v") EXCEPT !.ty = IntTy, !.link = "InternalLinkage",
                              !.props = {"defined", "constexpr", "inline"}],
    [Extra("Var", "v") EXCEPT !.ty = IntTy, !.storage = "SD_Thread"],
    [Extra("Var", "v") EXCEPT !.ty = Ty("Record", 2),
                              !.tsk = "TSK_ExplicitInstantiationDefinition",
                              !.props = {"defined"}],
    Local([Extra("Var", "v") EXCEPT !.ty = IntTy, !.storage = "SD_Automatic",
                                    !.props = {"defined"}]),
    Local([Extra("ParmVar", "") EXCEPT !.ty = IntTy,
                                       !.storage = "SD_Automatic"]),
    [Extra("VarTemplateSpecialization", "v")
       EXCEPT !.ty = IntTy, !.tsk = "TSK_ImplicitInstantiation",
              !.props = {"defined"}],
    [Extra("VarTemplatePartialSpecialization", "v")
       EXCEPT !.ty = IntTy, !.tsk = "TSK_ExplicitSpecialization"],
    AFunction("Function"),
    [AFunction("Function") EXCEPT !.ident = "g", !.canon = 4,
                                  !.rty = Ty("Void", 0),
                                  !.props = {"defined", "nothrow"}],
    [AFunction("Function") EXCEPT !.tsk = "TSK_ExplicitInstantiationDeclaration",
                                  !.props = {"deleted", "constexpr"}],
    [AFunction("Function") EXCEPT !.tsk = "TSK_ImplicitInstantiation",
                                  !.link = "InternalLinkage"],
    [AFunction("CXXMethod") EXCEPT !.props = {"static", "defined"},
                                   !.access = "AS_protected"],
    [AFunction("CXXMethod") EXCEPT !.ident = "",
                                   !.props = {"copyAssign", "virtual"},
                                   !.access = "AS_public"],
    [AFunction("CXXMethod") EXCEPT !.ident = "",
                                   !.props = {"moveAssign", "defined"},
                                   !.access = "AS_private"],
    [AFunction("CXXConstructor") EXCEPT !.ident = "",
                                        !.props = {"defaultCtor", "defined"},
                                        !.access = "AS_public"],
    [AFunction("CXXConstructor") EXCEPT !.ident = "",
                                        !.props = {"copyCtor", "defaulted"},
                                        !.access = "AS_public"],
    [AFunction("CXXConstructor") EXCEPT !.ident = "",
                                        !.props = {"moveCtor", "deleted"},
                                        !.access = "AS_private"],
    [AFunction("CXXDestructor") EXCEPT !.ident = "",
                                       !.props = {"virtual", "defined"},
                                       !.access = "AS_public"],
    [AFunction("CXXConversion") EXCEPT !.ident = "",
                                       !.props = {"explicit", "defined"},
                                       !.access = "AS_public"],
    [Extra("EnumConstant", "X") EXCEPT !.ty = Ty("Enum", 7)],
    Extra("ClassTemplate", "CT"),
    [Extra("ClassTemplate", "Cpt") EXCEPT !.props = {"concept"}],
    [Extra("FunctionTemplate", "ft") EXCEPT !.templated = "Function"],
    [Extra("FunctionTemplate", "ft") EXCEPT !.templated = "CXXMethod",
                                            !.props = {"static"}],
    [Extra("FunctionTemplate", "ft") EXCEPT !.templated = "CXXMethod"],
    [Extra("FunctionTemplate", "") EXCEPT !.templated = "CXXConstructor"],
    [Extra("FunctionTemplate", "") EXCEPT !.templated = "CXXDestructor"],
    Extra("VarTemplate", "vt"),
    Extra("TypeAliasTemplate", "at"),
    [Extra("TemplateTypeParm", "P") EXCEPT !.link = "NoLinkage",
                                           !.ty = Ty("TemplateTypeParm", 0)],
    [Extra("NonTypeTemplateParm", "n") EXCEPT !.link = "NoLinkage",
                                              !.ty = IntTy],
    [Extra("TemplateTemplateParm", "TT") EXCEPT !.link = "NoLinkage"],
    [Extra("StaticAssert", "") EXCEPT !.link = "NoLinkage"],
    [Extra("ClassScopeFunctionSpecialization", "")
       EXCEPT !.link = "NoLinkage"] }

\* Types that name no declaration.
PlainTypes ==
  {Ty(c, 0) : c \in {"Int", "Float", "Void", "NullPtr", "Array", "Pointer",
                     "LValueReference", "RValueReference",
                     "MemberDataPointer", "MemberFunctionPointer",
                     "FunctionProto"}}

\* Types of the fixed tag declarations and of the scope.
TagTypes(sk) ==
  {Ty("Record", 5), Ty("Record", 6), Ty("Enum", 7)} \cup
  (IF sk = "namespace" THEN {} ELSE {ScopeTy(sk)})

Types(sk) ==
  PlainTypes \cup TagTypes(sk) \cup
  {AliasOf(IntTy), LocInfoOf(IntTy), LocInfoOf(AliasOf(IntTy))} \cup
  (IF sk = "namespace" THEN {}
   ELSE {AliasOf(ScopeTy(sk)), LocInfoOf(ScopeTy(sk))})

\* Expressions that name no declaration.
PlainExprs ==
  { MkExpr("IntegerLiteral", "rvalue", NullDecl, IntTy),
    MkExpr("FloatingLiteral", "rvalue", NullDecl, Ty("Float", 0)),
    MkExpr("StringLiteral", "lvalue", NullDecl, Ty("Array", 0)),
    MkExpr("CXXBoolLiteralExpr", "rvalue", NullDecl, IntTy),
    MkExpr("CXXNullPtrLiteralExpr", "rvalue", NullDecl, Ty("NullPtr", 0)),
    MkExpr("CallExpr", "xvalue", NullDecl, IntTy),
    MkExpr("CallExpr", "rvalue", NullDecl, Ty("Record", 6)),
    MkExpr("BinaryOperator", "lvalue", NullDecl, IntTy),
    MkExpr("ParenExpr", "rvalue", NullDecl, NullType) }

\* The expression naming the value declaration D.
DeclRefExpr(D) ==
  MkExpr("DeclRefExpr",
         IF D.kind = "EnumConstant" THEN "rvalue" ELSE "lvalue", D, D.ty)

Bases ==
  {MkBase(Ty("Record", 6), FALSE), MkBase(AliasOf(Ty("Record", 6)), TRUE)}

\* The reflections of a program with scope kind sk, children ms and no
\* extra declaration.
ScopeSubjects(sk, ms) ==
  {DeclRefl(ScopeDeclOf(sk, ms))} \cup
  (IF sk = "namespace" THEN {} ELSE {TypeRefl(ScopeTy(sk))}) \cup
  {DeclRefl(MemberOf(sk, ms, i)) : i \in 1..Len(ms)} \cup
  {ExprRefl(DeclRefExpr(MemberOf(sk, ms, i))) :
     i \in {j \in 1..Len(ms) : ms[j] \in {"EnumConstant", "Var"}}}

\* The reflections that do not depend on the children of the scope.
FixedSubjects(sk) ==
  {InvalidRefl, InvalidReflWith(1), DeclRefl(TUDecl), DeclRefl(FnDecl),
   DeclRefl(FwdFnDecl), DeclRefl(UnionDecl), DeclRefl(ScopedEnumDecl),
   ExprRefl(DeclRefExpr(FwdFnDecl))} \cup
  {TypeRefl(T) : T \in Types(sk)} \cup
  {ExprRefl(E) : E \in PlainExprs} \cup
  {BaseRefl(B) : B \in Bases}

\* The reflections of the extra declaration D.
ExtraSubjects(D) ==
  {DeclRefl(D)} \cup
  (IF D.kind \in ValueKinds /\ D.ident # "" THEN {ExprRefl(DeclRefExpr(D))}
   ELSE {}) \cup
  (IF D.kind \in TagKinds
   THEN {TypeRefl(Ty(IF D.kind = "Enum" THEN "Enum" ELSE "Record", D.id))}
   ELSE {})

\* The program the fixed and the extra reflections are drawn in.
DefaultMembers == <<"InjectedClassName", "Field", "AccessSpec">>

\* What the caller's diagnostic sink can hold before a call: nothing, or a
\* note of the evaluation in progress.
PriorDiags ==
  {<<>>, <<[id |-> "note_constexpr_prior", sel |-> 0, ty |-> NullType]>>}

-----------------------------------------------------------------------------
(* The state machine: a client issues one query at a time on the subject   *)
(* reflection and may go on with the reflection a query returned.          *)

InitCaller ==
  /\ pc = "idle"
  /\ query = "RQ_unknown"
  /\ ret = "none"
  /\ result = Unset
  /\ arg = InvalidRefl
  /\ trail = <<>>
  /\ entry = "none"
  /\ hasSink \in BOOLEAN
  /\ diag \in (IF hasSink THEN PriorDiags ELSE {<<>>})

Init ==
  /\ InitCaller
  /\ \/ /\ scopeKind \in ScopeKinds
        /\ members \in MemberLists(scopeKind)
        /\ extra = NullDecl
        /\ subject \in ScopeSubjects(scopeKind, members)
     \/ /\ scopeKind = "struct"
        /\ members = DefaultMembers
        /\ extra = NullDecl
        /\ subject \in FixedSubjects("struct")
     \/ /\ scopeKind = "struct"
        /\ members = DefaultMembers
        /\ extra \in Extras
        /\ subject \in ExtraSubjects(extra)

\* A faulty Return that replaces the content of the sink by the diagnostics
\* of the call.
Return_overwriting(q, r) ==
  /\ pc' = IF r.ret = "halt" THEN "halted" ELSE "returned"
  /\ query' = q
  /\ ret' = r.ret
  /\ result' = IF r.set THEN r.val ELSE result
  /\ diag' = IF r.dg = <<>> THEN diag ELSE r.dg
  /\ UNCHANGED <<scopeKind, members, extra, subject, arg, hasSink, trail>>

\* The caller's state after a call of query q that produced r: Result is
\* assigned only on success, diagnostics are appended to the sink.
Return(q, r) ==
  /\ pc' = IF r.ret = "halt" THEN "halted" ELSE "returned"
  /\ query' = q
  /\ ret' = r.ret
  /\ result' = IF r.set THEN r.val ELSE result
  /\ diag' = diag \o r.dg
  /\ UNCHANGED <<scopeKind, members, extra, subject, arg, hasSink, trail>>

PredicateQueries == {q \in AllQueries : isPredicateQuery(q)}
TraitQueries == {q \in AllQueries : isTraitQuery(q)}
AssociatedQueries == {q \in AllQueries : isAssociatedReflectionQuery(q)}
NameQueries == {q \in AllQueries : isNameQuery(q)}

CallEvaluatePredicate(q) ==
  /\ pc = "idle"
  /\ entry' = "EvaluatePredicate"
  /\ Return(q, EvaluatePredicate(subject, q))

CallGetTraits(q) ==
  /\ pc = "idle"
  /\ entry' = "GetTraits"
  /\ Return(q, GetTraits(subject, q))

CallGetAssociatedReflection(q) ==
  /\ pc = "idle"
  /\ entry' = "GetAssociatedReflection"
  /\ Return(q, GetAssociatedReflection(subject, q))

CallGetName(q) ==
  /\ pc = "idle"
  /\ entry' = "GetName"
  /\ Return(q, GetName(subject, q))

\* The reflections the client compares the subject with.
Others ==
  {subject, InvalidRefl, InvalidReflWith(1), TypeRefl(IntTy),
   TypeRefl(AliasOf(IntTy)), TypeRefl(LocInfoOf(IntTy)),
   TypeRefl(Ty("Float", 0)), TypeRefl(Ty("Record", 6)),
   TypeRefl(AliasOf(Ty("Record", 6))), DeclRefl(ClassDecl),
   DeclRefl(FwdFnDecl), DeclRefl(ScopeDecl),
   ExprRefl(MkExpr("IntegerLiteral", "rvalue", NullDecl, IntTy)),
   ExprRefl(DeclRefExpr(FwdFnDecl)),
   BaseRefl(MkBase(Ty("Record", 6), FALSE))} \cup
  (IF extra # NullDecl THEN {DeclRefl(extra)} ELSE {}) \cup
  (IF scopeKind # "namespace" THEN {TypeRefl(ScopeTy(scopeKind))} ELSE {})

\* Reflection::Equal(subject, b): returns a bool, assigns no Result.
CallEqual(b) ==
  /\ pc = "idle"
  /\ pc' = "returned"
  /\ query' = "Equal"
  /\ entry' = "Equal"
  /\ arg' = b
  /\ ret' = IF Equal(subject, b) THEN "true" ELSE "false"
  /\ UNCHANGED <<scopeKind, members, extra, subject, result, diag, hasSink,
                 trail>>

\* The client goes on with the reflection the query returned.  trail keeps
\* the reflection get_begin was asked on and what the traversal yielded
\* since.
Advance ==
  /\ pc = "returned"
  /\ ret = "true"
  /\ query # "Equal"
  /\ result.t = "reflection"
  /\ pc' = "idle"
  /\ subject' = result.r
  /\ trail' = IF query = "RQ_get_begin" THEN <<subject, result.r>>
              ELSE IF query = "RQ_get_next" /\ trail # <<>>
              THEN Append(trail, result.r)
              ELSE <<>>
  /\ query' = "RQ_unknown"
  /\ entry' = "none"
  /\ ret' = "none"
  /\ UNCHANGED <<scopeKind, members, extra, arg, result, diag, hasSink>>

Next ==
  \/ \E q \in PredicateQueries : CallEvaluatePredicate(q)
  \/ \E q \in TraitQueries : CallGetTraits(q)
  \/ \E q \in AssociatedQueries : CallGetAssociatedReflection(q)
  \/ \E q \in NameQueries : CallGetName(q)
  \/ \E b \in Others : CallEqual(b)

Spec == Init /\ [][Next]_vars

\* A client that follows associated reflections from one entity to the
\* next, as the traversal loops of the library do.
NavNext ==
  \/ \E q \in AssociatedQueries : CallGetAssociatedReflection(q)
  \/ Advance

NavSpec == Init /\ [][NavNext]_vars

\* The variable declarations the trait encoder is run on: every
\* combination of the attributes getVariableTraits reads.
Variables ==
  {[Extra("Var", "v") EXCEPT !.ty = IntTy, !.link = l, !.access = a,
                             !.storage = sd, !.props = fl] :
     l \in {"NoLinkage", "InternalLinkage", "ExternalLinkage"},
     a \in {"AS_none", "AS_public", "AS_private", "AS_protected"},
     sd \in {"SD_Automatic", "SD_Static", "SD_Thread"},
     fl \in SUBSET {"constexpr", "defined", "inline"}}

TraitInit ==
  /\ InitCaller
  /\ scopeKind = "struct"
  /\ members = DefaultMembers
  /\ extra \in Variables
  /\ subject \in {DeclRefl(extra), ExprRefl(DeclRefExpr(extra))}

TraitNext == \E q \in TraitQueries : CallGetTraits(q)

TraitSpec == TraitInit /\ [][TraitNext]_vars

-----------------------------------------------------------------------------
(* Properties.                                                             *)

\* A call of query has ended, by returning or by stopping the process.
Called(Q) == pc # "idle" /\ query = Q

\* The value a successful call of query Q may assign.
WellTyped(Q, V) ==
  CASE Q \in PredicateQueries -> V.t = "bool"
    [] Q \in TraitQueries -> V.t = "uint"
    [] Q \in AssociatedQueries -> V.t = "reflection"
    [] Q \in NameQueries -> V.t = "string"
    [] OTHER -> FALSE

\* C1 (band totality): every call of a band's entry point with a query of
\* that band, on a reflection of any kind, returns true with a result of the
\* band's type or returns false; none stops at an unreachable branch, a
\* failed assertion or the use of an absent declaration.
C1_BandTotality ==
  (pc # "idle" /\ query \in AllQueries) =>
    \/ ret = "true" /\ WellTyped(query, result)
    \/ ret = "false"

\* The children of a scope that the traversal leaves out.
Filtered(D) ==
  \/ D.kind = "AccessSpec"
  \/ D.kind = "CXXRecord" /\ "injected" \in D.props

\* The reflectable children of the scope DC, in declaration order.
ReflectableChildren(DC) == SelectSeq(Children(DC), LAMBDA D : ~Filtered(D))

\* What the i-th step of a traversal of the scope DC yields: the i-th
\* reflectable child, then the invalid reflection.
Yield(DC, i) ==
  IF i <= Len(ReflectableChildren(DC))
  THEN DeclRefl(ReflectableChildren(DC)[i])
  ELSE InvalidRefl

\* C2 (traversal termination): get_begin on a scope followed by get_next on
\* each returned reflection yields the N reflectable children of the scope
\* as declaration reflections, each once and in declaration order; the call
\* after the N-th succeeds with the invalid reflection.
C2_TraversalYieldsMembers ==
  /\ trail # <<>> =>
       LET DC == getReachableDeclContext(trail[1])
           k == Len(trail) - 1
       IN /\ k <= Len(ReflectableChildren(DC)) + 1
          /\ \A i \in 1..k : trail[i + 1] = Yield(DC, i)
          /\ (Called("RQ_get_next") /\ ~isInvalidKind(subject)) =>
               ret = "true" /\ result = ReflVal(Yield(DC, k + 1))
  /\ (Called("RQ_get_begin") /\
      getReachableDeclContext(subject) # NullDecl) =>
       /\ ret = "true"
       /\ result = ReflVal(Yield(getReachableDeclContext(subject), 1))

\* A traversal of a class with an access specifier among its children has
\* yielded both fields and then the end.
C2_Witness ==
  /\ pc = "idle"
  /\ members = <<"InjectedClassName", "Field", "AccessSpec", "Field">>
  /\ trail = <<DeclRefl(ScopeDecl), DeclRefl(Member(2)), DeclRefl(Member(4)),
               InvalidRefl>>

\* The traversal has reached its end: the last reflection it yielded is the
\* invalid one.
AtEnd == trail # <<>> /\ isInvalidKind(trail[Len(trail)])

\* C3 (end of traversal is absorbing): get_next applied to the invalid
\* reflection that ended a traversal succeeds and yields an invalid
\* reflection again.
C3_EndAbsorbing ==
  (Called("RQ_get_next") /\ AtEnd) =>
    ret = "true" /\ result.t = "reflection" /\ isInvalidKind(result.r)

\* The declaration get_begin or get_next started from, and the siblings
\* that follow the start.
StartContext ==
  IF query = "RQ_get_begin" THEN getReachableDeclContext(subject)
  ELSE ContextDecl(getReachableDecl(subject).lex)

StartPos == IF query = "RQ_get_begin" THEN 0 ELSE getReachableDecl(subject).pos

\* C4 (reflectability filter): a reflection returned by get_begin or
\* get_next never designates an access specifier or an injected class name,
\* and the children between the starting point and the returned one (all
\* the following children, if the end is returned) are of these two sorts.
C4_ReflectabilityFilter ==
  ((Called("RQ_get_begin") \/ Called("RQ_get_next")) /\ ret = "true") =>
    LET Ds == Children(StartContext)
        last == IF isInvalidKind(result.r) THEN Len(Ds)
                ELSE result.r.decl.pos - 1
    IN /\ result.t = "reflection"
       /\ ~isInvalidKind(result.r) =>
            /\ isDeclarationKind(result.r)
            /\ ~Filtered(result.r.decl)
            /\ result.r.decl.pos > StartPos
            /\ result.r.decl.pos <= Len(Ds)
            /\ Ds[result.r.decl.pos] = result.r.decl
       /\ \A i \in (StartPos + 1)..last : Filtered(Ds[i])

\* get_next on a field followed by an access specifier returned the member
\* function behind the specifier.
C4_Witness ==
  /\ Called("RQ_get_next")
  /\ ret = "true"
  /\ isDeclarationKind(subject)
  /\ subject.decl.kind = "Field"
  /\ getNextDeclInContext(subject.decl).kind = "AccessSpec"
  /\ isDeclarationKind(result.r)
  /\ result.r.decl.kind = "CXXMethod"

\* C5 (equality is reflexive on valid reflections): for every reflection x
\* that is not invalid, of a type, a declaration, an expression or a base
\* specifier, Equal(x, x) is true.
C5_EqualReflexive ==
  (Called("Equal") /\ arg = subject /\ ~isInvalidKind(subject)) =>
    ret = "true"

\* C6 (equality is symmetric): Equal(a, b) and Equal(b, a) agree for every
\* pair of reflections.
C6_EqualSymmetric ==
  Called("Equal") => ((ret = "true") <=> Equal(arg, subject))

\* A type written through an alias was found equal to another reflection
\* of the same type.
C6_Witness ==
  /\ Called("Equal")
  /\ ret = "true"
  /\ arg # subject
  /\ isTypeKind(subject)
  /\ subject.type.sugar = "alias"

\* The relation equal is specified to compute.
ReferenceEqual(A, B) ==
  IF A.kind # B.kind THEN FALSE
  ELSE CASE A.kind = "RK_invalid" -> TRUE
         [] A.kind = "RK_type" ->
              [A.type EXCEPT !.sugar = "none"] =
              [B.type EXCEPT !.sugar = "none"]
         [] A.kind = "RK_declaration" -> A.decl.canon = B.decl.canon
         [] OTHER -> FALSE

Between(a, b) == {q \in AllQueries : Ord(a) <= Ord(q) /\ Ord(q) <= Ord(b)}

\* Predicates on the canonical type of a type reflection.
TypeFamily ==
  Between("RQ_is_function_type", "RQ_is_member_function_pointer_type")

\* Predicates on the reachable declaration.
DeclarationFamily ==
  Between("RQ_is_variable", "RQ_is_destructor") \cup
  Between("RQ_is_namespace", "RQ_is_explicit_instantiation") \cup
  Between("RQ_is_template_parameter", "RQ_is_template_template_parameter") \cup
  {"RQ_is_local", "RQ_is_class_member", "RQ_has_default_access"}

\* Predicates on the value category or form of an expression.
ExpressionFamily == Between("RQ_is_lvalue", "RQ_is_value")

\* Predicate Q has nothing to ask of reflection R.
Inapplicable(R, Q) ==
  \/ Q \in TypeFamily /\ ~isTypeKind(R)
  \/ Q \in DeclarationFamily /\ getReachableDecl(R) = NullDecl
  \/ Q \in ExpressionFamily /\ ~isExpressionKind(R)

\* The same, with is_unnamed and the predicates that are not implemented.
InapplicableAsStated(R, Q) ==
  \/ Inapplicable(R, Q)
  \/ Q \in {"RQ_is_unnamed", "RQ_is_function_parameter"} /\
     getReachableDecl(R) = NullDecl
  \/ Q = "RQ_is_closure_type" /\ ~isTypeKind(R)
  \/ Q \in {"RQ_is_direct_base", "RQ_is_virtual_base"} /\ ~isBaseKind(R)

\* C8 (predicate default), as amended: every predicate other than
\* is_unnamed, is_closure_type, is_direct_base, is_virtual_base and
\* is_function_parameter that is inapplicable to a reflection (a type
\* predicate asked of a non-type, a declaration predicate asked of a
\* reflection with no reachable declaration, an expression predicate asked
\* of a non-expression) succeeds with the value false.
C8_PredicateDefault ==
  (pc # "idle" /\ query \in PredicateQueries /\
   Inapplicable(subject, query)) =>
    ret = "true" /\ result = makeBool(FALSE)

\* C8 as stated: every inapplicable predicate, is_unnamed and the
\* predicates that are not implemented included, succeeds with false.
C8_PredicateDefaultAsStated ==
  (pc # "idle" /\ query \in PredicateQueries /\
   InapplicableAsStated(subject, query)) =>
    ret = "true" /\ result = makeBool(FALSE)

\* is_variable asked of the type int, which names no declaration,
\* succeeded with false.
C8_Witness ==
  /\ Called("RQ_is_variable")
  /\ subject = TypeRefl(IntTy)
  /\ ret = "true"
  /\ result = makeBool(FALSE)

\* The declarations get_decl_traits has an encoder for.
EncodedKinds ==
  {"Var", "ParmVar", "VarTemplateSpecialization",
   "VarTemplatePartialSpecialization", "Field", "CXXConstructor",
   "CXXDestructor", "CXXConversion", "CXXMethod", "Function", "EnumConstant",
   "Namespace"}

\* The reflection is a type that names a class or an enumeration.
NamesTag(R) == isTypeKind(R) /\ R.type.cls \in {"Record", "Enum"}

\* C9 (trait absence is observable): get_decl_traits on a reflection with
\* no reachable declaration or with one that has no encoder, and
\* get_type_traits on a reflection that is not a type naming a tag, return
\* false and assign no packed value.
C9_TraitAbsence ==
  /\ (Called("RQ_get_decl_traits") /\
      getReachableDecl(subject).kind \notin EncodedKinds) =>
       ret = "false" /\ result = Unset
  /\ (Called("RQ_get_type_traits") /\ ~NamesTag(subject)) =>
       ret = "false" /\ result = Unset

\* get_decl_traits asked of a class template, and get_type_traits of the
\* type int, have failed.
C9_Witness ==
  /\ ret = "false"
  /\ \/ Called("RQ_get_decl_traits") /\ isDeclarationKind(subject) /\
        subject.decl.kind = "ClassTemplate"
     \/ Called("RQ_get_type_traits") /\ subject = TypeRefl(IntTy)

\* The field of a packed value that starts at bit lo and is w bits wide.
Field(n, lo, w) == (n \div Pow2(lo)) % Pow2(w)

LinkageOf(c) ==
  CASE c = 0 -> "NoLinkage" [] c = 1 -> "InternalLinkage"
    [] c = 2 -> "ExternalLinkage" [] OTHER -> "?"

AccessOf(c) ==
  CASE c = 0 -> "AS_none" [] c = 1 -> "AS_public" [] c = 2 -> "AS_private"
    [] OTHER -> "AS_protected"

StorageOf(c) ==
  CASE c = 0 -> "SD_Automatic" [] c = 1 -> "SD_Static" [] c = 2 -> "SD_Thread"
    [] OTHER -> "SD_Dynamic"

\* C10 (trait round-trip for variables): the value get_decl_traits returns
\* for a variable decodes, by position, to the attributes of the variable:
\* linkage in bits 0-1, access in bits 2-3, storage duration in bits 4-5,
\* constexpr in bit 6, defined in bit 7, inline in bit 8, nothing above.
C10_VariableRoundTrip ==
  (Called("RQ_get_decl_traits") /\
   getReachableDecl(subject).kind = "Var") =>
    LET D == getReachableDecl(subject)
        n == result.n
    IN /\ ret = "true"
       /\ result.t = "uint"
       /\ LinkageOf(Field(n, 0, 2)) = D.link
       /\ AccessOf(Field(n, 2, 2)) = D.access
       /\ StorageOf(Field(n, 4, 2)) = D.storage
       /\ (Field(n, 6, 1) = 1) <=> ("constexpr" \in D.props)
       /\ (Field(n, 7, 1) = 1) <=> ("defined" \in D.props)
       /\ (Field(n, 8, 1) = 1) <=> ("inline" \in D.props)
       /\ n \div Pow2(9) = 0

\* The traits of a public, externally linked, constexpr and defined
\* variable were returned and decode to these attributes.
C10_Witness ==
  /\ Called("RQ_get_decl_traits")
  /\ ret = "true"
  /\ isDeclarationKind(subject)
  /\ subject.decl.access = "AS_public"
  /\ subject.decl.link = "ExternalLinkage"
  /\ subject.decl.storage = "SD_Static"
  /\ subject.decl.props = {"constexpr", "defined"}
  /\ Field(result.n, 0, 2) = 2
  /\ Field(result.n, 2, 2) = 1
  /\ Field(result.n, 6, 2) = 3

\* The record the trait query Q fills in for reflection R.
TraitRecord(R, Q) ==
  LET D == getReachableDecl(R)
      TD == getAsTagDecl(getCanonicalType(R))
  IN CASE Q = "RQ_get_linkage_traits" -> getLinkageTraits(D)
       [] Q = "RQ_get_access_traits" -> getAccessTraits(D)
       [] Q = "RQ_get_type_traits" ->
            IF TD.kind = "Enum" THEN getEnumTraits(TD) ELSE getClassTraits(TD)
       [] D.kind \in VarKinds -> getVariableTraits(D)
       [] D.kind = "Field" -> getFieldTraits(D)
       [] D.kind = "CXXConstructor" -> getMethodTraitsCtor(D)
       [] D.kind = "CXXDestructor" -> getMethodTraitsDtor(D)
       [] D.kind = "CXXConversion" -> getMethodTraitsConv(D)
       [] D.kind = "CXXMethod" -> getMethodTraits(D)
       [] D.kind = "Function" -> getFunctionTraits(D)
       [] D.kind = "EnumConstant" -> getValueTraits(D)
       [] OTHER -> getNamespaceTraits(D)

\* The bits a record of fields takes.
WidthOf(S) ==
  LET w[i \in 0..Len(S)] == IF i = 0 THEN 0 ELSE w[i - 1] + S[i][2]
  IN w[Len(S)]

\* The bits below the reserved ones in the record the trait query Q fills
\* in for reflection R.
DefinedBits(R, Q) ==
  LET k == getReachableDecl(R).kind
  IN CASE Q = "RQ_get_linkage_traits" -> 2
       [] Q = "RQ_get_access_traits" -> 4
       [] Q = "RQ_get_type_traits" -> IF R.type.cls = "Enum" THEN 6 ELSE 11
       [] k \in VarKinds \/ k = "Function" -> 9
       [] k \in {"CXXConstructor", "CXXDestructor", "CXXConversion",
                 "CXXMethod"} -> 23
       [] k = "EnumConstant" -> 4
       [] OTHER -> 5

\* C11 (trait record width and reserved bits): the value of every trait
\* query that succeeds comes from a record whose field widths sum to 32, and
\* every bit above the fields the record defines, as well as the two padding
\* bits of the bare access record, is zero.
C11_TraitWidth ==
  (pc # "idle" /\ query \in TraitQueries /\ ret = "true") =>
    /\ result.t = "uint"
    /\ WidthOf(TraitRecord(subject, query)) = 32
    /\ result.n >= 0
    /\ result.n \div Pow2(DefinedBits(subject, query)) = 0
    /\ query = "RQ_get_access_traits" => result.n % 4 = 0

\* The traits of a move assignment operator, whose flag is the highest
\* defined bit of the widest record, and the access traits of a protected
\* member have been returned.
C11_Witness ==
  /\ ret = "true"
  /\ isDeclarationKind(subject)
  /\ \/ /\ Called("RQ_get_decl_traits")
        /\ subject.decl.kind = "CXXMethod"
        /\ Field(result.n, 22, 1) = 1
     \/ /\ Called("RQ_get_access_traits")
        /\ subject.decl.access = "AS_protected"
        /\ result.n = 12

\* The three predicates on the way an entity was specialized.
SpecializationQueries ==
  {"RQ_is_explicit_specialization", "RQ_is_implicit_instantiation",
   "RQ_is_explicit_instantiation"}

\* The answer predicate Q gives on reflection R.
Answer(R, Q) == EvaluatePredicate(R, Q)

\* C12 (specialization mutual exclusion): is_explicit_specialization,
\* is_implicit_instantiation and is_explicit_instantiation never fail, at
\* most one of them is true of a reflection, and all three are false of an
\* entity with no specialization kind or of a reflection with no reachable
\* declaration.
C12_SpecializationExclusive ==
  (pc # "idle" /\ query \in SpecializationQueries) =>
    /\ ret = "true"
    /\ result.t = "bool"
    /\ result.b =>
         \A q \in SpecializationQueries \ {query} :
           Answer(subject, q) = SuccessFalse
    /\ getReachableDecl(subject).tsk = "TSK_Undeclared" => ~result.b

\* is_explicit_instantiation was true of an explicit instantiation
\* definition of a variable.
C12_Witness ==
  /\ Called("RQ_is_explicit_instantiation")
  /\ result = makeBool(TRUE)
  /\ isDeclarationKind(subject)
  /\ subject.decl.tsk = "TSK_ExplicitInstantiationDefinition"

\* D is a child of the record that encloses it and comes before the
\* record's first access specifier.
BeforeFirstAccessSpec(D) ==
  LET Ds == Children(ContextDecl(D.ctx))
  IN /\ ContextDecl(D.ctx).kind \in {"CXXRecord",
                                     "ClassTemplateSpecialization",
                                     "ClassTemplatePartialSpecialization"}
     /\ \E i \in 1..Len(Ds) :
          /\ Ds[i] = D
          /\ \A j \in 1..i : Ds[j].kind # "AccessSpec"

\* C13 (has_default_access): has_default_access succeeds on every
\* reflection; it is true exactly when the reachable declaration is a child
\* of its enclosing record that precedes the record's first access
\* specifier, and false when there is no reachable declaration or the
\* declaration is not a member of a record.
C13_HasDefaultAccess ==
  (pc # "idle" /\ query = "RQ_has_default_access") =>
    /\ ret = "true"
    /\ result.t = "bool"
    /\ result.b <=> (getReachableDecl(subject) # NullDecl /\
                     BeforeFirstAccessSpec(getReachableDecl(subject)))

\* The same, but for the reflection of the translation unit.
C13_ExceptTranslationUnit ==
  getReachableDecl(subject).kind # "TranslationUnit" => C13_HasDefaultAccess

-----------------------------------------------------------------------------
(* A caller that issues query after query on one reflection with the same  *)
(* Result and the same diagnostic sink, whatever the calls return.         *)

\* One reflection of each kind, with and without a reachable declaration.
SinkSubjects ==
  {InvalidRefl, TypeRefl(IntTy), TypeRefl(Ty("Record", 6)),
   DeclRefl(FwdFnDecl), DeclRefl(ClassDecl),
   ExprRefl(MkExpr("CXXBoolLiteralExpr", "rvalue", NullDecl, IntTy)),
   ExprRefl(DeclRefExpr(FwdFnDecl)),
   BaseRefl(MkBase(Ty("Record", 6), FALSE))}

SinkInit ==
  /\ InitCaller
  /\ scopeKind = "struct"
  /\ members = DefaultMembers
  /\ extra = NullDecl
  /\ subject \in SinkSubjects

\* The caller turns to its next query; the sink is bounded by MaxDiag.
Continue ==
  /\ pc = "returned"
  /\ Len(diag) < MaxDiag
  /\ pc' = "idle"
  /\ UNCHANGED <<scopeKind, members, extra, subject, arg, query, ret, result,
                 diag, hasSink, trail, entry>>

SinkNext ==
  \/ \E q \in PredicateQueries : CallEvaluatePredicate(q)
  \/ \E q \in TraitQueries : CallGetTraits(q)
  \/ \E q \in AssociatedQueries : CallGetAssociatedReflection(q)
  \/ \E q \in NameQueries : CallGetName(q)
  \/ Continue

SinkSpec == SinkInit /\ [][SinkNext]_vars

\* C14 (diagnostic sink discipline): a call that fails appends at most one
\* diagnostic at the end of the sink, a call that succeeds appends none, no
\* step removes, overwrites or reorders what the sink holds, and without a
\* sink nothing is recorded: the failure shows in the return value alone.
C14_SinkDiscipline ==
  [][/\ Len(diag') >= Len(diag)
     /\ SubSeq(diag', 1, Len(diag)) = diag
     /\ Len(diag') <= Len(diag) + 1
     /\ (pc = "idle" /\ ret' = "true") => diag' = diag
     /\ ~hasSink => diag' = <<>>
     /\ (pc = "idle" /\ ret' = "false" /\ hasSink) =>
          Len(diag') = Len(diag) + 1]_vars

\* Two failing calls in a row have left their notes in the sink, in the
\* order of the calls.
C14_Witness ==
  /\ pc = "returned"
  /\ ret = "false"
  /\ hasSink
  /\ Len(diag) = 2
  /\ diag[1].id = "note_reflection_query_unimplemented"
  /\ diag[2].id = "note_reflection_not_defined"

\* A call has failed without a sink.
C14_WitnessNoSink == pc = "returned" /\ ret = "false" /\ ~hasSink


\* The queries whose implementation is a call of ErrorUnimplemented.
UnimplementedQueries ==
  {"RQ_is_closure_type", "RQ_is_direct_base", "RQ_is_virtual_base",
   "RQ_is_function_parameter", "RQ_get_this_ref_type"}

\* C15 (unimplemented queries): is_closure_type, is_direct_base,
\* is_virtual_base, is_function_parameter and get_this_ref_type fail for
\* every reflection, leave Result without an answer, and with a sink their
\* note is the 'query unimplemented' one, never the 'not defined' one.
C15_Unimplemented ==
  (pc # "idle" /\ query \in UnimplementedQueries) =>
    /\ pc = "returned"
    /\ ret = "false"
    /\ result = Unset
    /\ hasSink =>
         /\ diag # <<>>
         /\ diag[Len(diag)].id = "note_reflection_query_unimplemented"
    /\ ~hasSink => diag = <<>>

\* get_this_ref_type has failed on the reflection of a member function, with
\* a sink that already held a note.
C15_Witness ==
  /\ pc = "returned"
  /\ query = "RQ_get_this_ref_type"
  /\ subject.kind = "RK_declaration"
  /\ getReachableDecl(subject).kind = "CXXMethod"
  /\ hasSink
  /\ Len(diag) = 2

-----------------------------------------------------------------------------
(* The attribute queries, asked of a declaration that carries user-defined *)
(* attributes and of reflections that reach it or reach nothing.           *)

\* The types of the attribute expressions: int, an alias of int, const int
\* and float.
AttrTypes == {IntTy, AliasOf(IntTy), ConstOf(IntTy), Ty("Float", 0)}

AttrUniverse == {UserDefinedAttr(t, UIntVal(n)) : t \in AttrTypes, n \in 1..2}

\* The declaration with the attributes UDs: a class or a variable.
Attributed(kind, UDs) ==
  [Extra(kind, "a") EXCEPT
     !.attrs = UDs,
     !.tagkind = IF kind = "CXXRecord" THEN "class" ELSE "none",
     !.ty = IF kind = "Var" THEN IntTy ELSE NullType]

\* Reflections of the attributed declaration e, of its type or of an
\* expression naming it, and reflections that reach no declaration.
AttrSubjects(e) ==
  {InvalidRefl, TypeRefl(IntTy), DeclRefl(e)} \cup
  (IF e.kind = "Var" THEN {ExprRefl(DeclRefExpr(e))}
   ELSE {TypeRefl(Ty("Record", e.id)), TypeRefl(AliasOf(Ty("Record", e.id)))})

\* The AttributeType operands: reflections of a type, the null type included.
AttrArgs == {TypeRefl(t) : t \in AttrTypes \cup {NullType, Ty("Record", 6)}}

AttrInit ==
  /\ InitCaller
  /\ scopeKind = "struct"
  /\ members = DefaultMembers
  /\ extra \in {Attributed(k, UDs) : k \in {"CXXRecord", "Var"},
                                     UDs \in SeqsUpTo(AttrUniverse, MaxAttrs)}
  /\ subject \in AttrSubjects(extra)

\* The caller's state after an attribute query q with operand a produced r.
ReturnAttr(q, a, r) ==
  /\ pc' = "returned"
  /\ query' = q
  /\ arg' = a
  /\ ret' = r.ret
  /\ result' = IF r.set THEN r.val ELSE result
  /\ diag' = diag \o r.dg
  /\ UNCHANGED <<scopeKind, members, extra, subject, hasSink, trail>>

CallGetUserDefinedAttribute(a) ==
  /\ pc = "idle"
  /\ entry' = "GetUserDefinedAttribute"
  /\ ReturnAttr("RQ_get_attribute", a, GetUserDefinedAttribute(subject, a))

CallHasUserDefinedAttribute(a) ==
  /\ pc = "idle"
  /\ entry' = "HasUserDefinedAttribute"
  /\ ReturnAttr("RQ_has_attribute", a, HasUserDefinedAttribute(subject, a))

AttrNext ==
  \/ \E a \in AttrArgs : CallGetUserDefinedAttribute(a)
  \/ \E a \in AttrArgs : CallHasUserDefinedAttribute(a)

AttrSpec == AttrInit /\ [][AttrNext]_vars

\* Two types match canonically: they are the same type once aliases and
\* top-level qualifiers are set aside.
CanonicallyMatches(a, b) ==
  [a EXCEPT !.sugar = "none", !.cv = FALSE] =
  [b EXCEPT !.sugar = "none", !.cv = FALSE]

\* The places of the attributes of D whose type matches T.
Matching(D, T) ==
  {i \in 1..Len(D.attrs) : CanonicallyMatches(D.attrs[i].ty, T)}

\* C16 (has_attribute always succeeds): for every reflection and every
\* attribute type operand, the null type included, has_attribute returns
\* success with a boolean in Result.
C16_HasAttributeSucceeds ==
  (pc # "idle" /\ query = "RQ_has_attribute") =>
    /\ ret = "true"
    /\ result.t = "bool"

\* has_attribute with an operand that is not the null type: it succeeds, and
\* its answer says whether the reachable declaration has a matching
\* attribute.
HasAttributeNonNull ==
  (pc # "idle" /\ query = "RQ_has_attribute" /\ arg.type # NullType) =>
    /\ ret = "true"
    /\ result.t = "bool"
    /\ result.b <=> Matching(getReachableDecl(subject), arg.type) # {}

\* C17 (get_attribute): get_attribute succeeds exactly when the type operand
\* is not null, the reflection reaches a declaration and one of its
\* attributes matches the operand canonically; Result is then the value of
\* the first such attribute in the order of the declaration, and is left
\* alone when the query fails.
C17_GetAttribute ==
  (pc # "idle" /\ query = "RQ_get_attribute") =>
    LET D == getReachableDecl(subject)
        M == Matching(D, arg.type)
    IN IF arg.type # NullType /\ D # NullDecl /\ M # {}
       THEN /\ ret = "true"
            /\ \A i \in M : (\A j \in M : i <= j) => result = D.attrs[i].val
       ELSE /\ ret = "false"
            /\ result = Unset

\* get_attribute on the type of a class with two matching attributes of
\* different values, the first one declared through an alias.
C17_Witness ==
  /\ pc = "returned"
  /\ query = "RQ_get_attribute"
  /\ ret = "true"
  /\ subject.kind = "RK_type"
  /\ arg.type = IntTy
  /\ Len(extra.attrs) = 2
  /\ extra.attrs[1].ty = AliasOf(IntTy)
  /\ extra.attrs[2].ty = IntTy
  /\ extra.attrs[1].val # extra.attrs[2].val


\* The tag declaration (class, struct, union or enum) a reflection stands
\* for, as a type or as a declaration; NullDecl for every other reflection.
TagOf(R) ==
  IF R.kind = "RK_type" /\ R.type.cls \in {"Record", "Enum"}
  THEN DeclById(R.type.tag)
  ELSE IF R.kind = "RK_declaration" /\ R.decl.kind \in TagKinds THEN R.decl
  ELSE NullDecl

\* C18 (get_definition): for the reflection of a tag declaration, given as
\* a type or as a declaration, get_definition yields the declaration when
\* it is defined and fails when it is only declared; it fails for every
\* other reflection.
C18_GetDefinition ==
  (pc # "idle" /\ query = "RQ_get_definition") =>
    IF TagOf(subject) # NullDecl /\ "defined" \in TagOf(subject).props
    THEN /\ ret = "true"
         /\ result = ReflVal(DeclRefl(TagOf(subject)))
    ELSE ret = "false"

\* get_definition of a type reflection: it yields the tag declaration of
\* the type, defined or not, and fails for a type that is not a tag type.
GetDefinitionOfType ==
  (pc # "idle" /\ query = "RQ_get_definition" /\ subject.kind = "RK_type") =>
    IF TagOf(subject) # NullDecl
    THEN /\ ret = "true"
         /\ result = ReflVal(DeclRefl(TagOf(subject)))
    ELSE ret = "false"

\* get_definition of a reflection that is not a type: it fails.
GetDefinitionOfOther ==
  (pc # "idle" /\ query = "RQ_get_definition" /\ subject.kind # "RK_type") =>
    ret = "false"


\* C19 (get_entity): a type reflection yields the reflection of its
\* canonical type, a declaration reflection that of its canonical
\* declaration, an expression reflection that of the declaration it
\* references and fails when it references none, a base-specifier
\* reflection yields the reflection of the canonical type it names, and an
\* invalid reflection fails.
C19_GetEntity ==
  (pc # "idle" /\ query = "RQ_get_entity") =>
    CASE subject.kind = "RK_type" ->
           /\ ret = "true"
           /\ result = ReflVal(TypeRefl([subject.type EXCEPT !.sugar = "none"]))
      [] subject.kind = "RK_declaration" ->
           /\ ret = "true"
           /\ result = ReflVal(DeclRefl(DeclById(subject.decl.canon)))
      [] subject.kind = "RK_expression" ->
           IF subject.expr.cls = "DeclRefExpr"
           THEN /\ ret = "true"
                /\ result = ReflVal(DeclRefl(subject.expr.ref))
           ELSE ret = "false" /\ result = Unset
      [] subject.kind = "RK_base_specifier" ->
           /\ ret = "true"
           /\ result = ReflVal(TypeRefl([subject.base.ty EXCEPT !.sugar = "none"]))
      [] OTHER -> ret = "false" /\ result = Unset


\* get_entity of the reflection of a redeclaration has yielded the
\* reflection of the first declaration.
C19_Witness ==
  /\ pc = "returned"
  /\ query = "RQ_get_entity"
  /\ ret = "true"
  /\ subject.kind = "RK_declaration"
  /\ subject.decl.canon # subject.decl.id
  /\ result.r.decl.id = subject.decl.canon


\* C20 (get_name): get_name fails on an invalid reflection; for a
\* reflection whose reachable declaration is named it yields the identifier
\* of that declaration; for an unnamed declaration, and for a reflection
\* that is not a type and reaches no named declaration, it fails and yields
\* no string.
C20_GetName ==
  (pc # "idle" /\ query = "RQ_get_name") =>
    LET D == getReachableDecl(subject)
    IN CASE subject.kind = "RK_invalid" -> ret = "false" /\ result = Unset
         [] subject.kind # "RK_invalid" /\ D.ident # "" ->
              ret = "true" /\ result = StrVal(D.ident)
         [] subject.kind \notin {"RK_invalid", "RK_type"} /\ D.ident = "" ->
              ret = "false" /\ result = Unset
         [] OTHER -> TRUE


\* The same for the reflections that are not types and are invalid or reach
\* a declaration.
GetNameOfReachable ==
  (/\ subject.kind # "RK_type"
   /\ subject.kind = "RK_invalid" \/ getReachableDecl(subject) # NullDecl)
    => C20_GetName

-----------------------------------------------------------------------------
(* A caller that hands any query of the catalogue to any of the four band  *)
(* entry points.                                                           *)

BandNext ==
  \/ \E q \in AllQueries : CallEvaluatePredicate(q)
  \/ \E q \in AllQueries : CallGetTraits(q)
  \/ \E q \in AllQueries : CallGetAssociatedReflection(q)
  \/ \E q \in AllQueries : CallGetName(q)

BandSpec == SinkInit /\ [][BandNext]_vars

\* The queries of the catalogue from a to b.
Span(a, b) == {ReflectionQuery[i] : i \in (Ord(a) + 1)..(Ord(b) + 1)}

\* The band of each entry point: the queries from its first to its last.
BandOf(e) ==
  CASE e = "EvaluatePredicate" -> Span("RQ_is_invalid", "RQ_has_default_access")
    [] e = "GetTraits" -> Span("RQ_get_decl_traits", "RQ_get_type_traits")
    [] e = "GetAssociatedReflection" -> Span("RQ_get_entity", "RQ_get_next")
    [] e = "GetName" -> Span("RQ_get_name", "RQ_get_display_name")
    [] OTHER -> {}

BandEntries ==
  {"EvaluatePredicate", "GetTraits", "GetAssociatedReflection", "GetName"}

\* The entry points whose band-membership test accepts q.
Accepting(q) ==
  (IF isPredicateQuery(q) THEN {"EvaluatePredicate"} ELSE {}) \cup
  (IF isTraitQuery(q) THEN {"GetTraits"} ELSE {}) \cup
  (IF isAssociatedReflectionQuery(q) THEN {"GetAssociatedReflection"}
   ELSE {}) \cup
  (IF isNameQuery(q) THEN {"GetName"} ELSE {})

\* C21 (band contract): an entry point called with a query outside its own
\* band stops: it returns neither success nor failure, writes no Result and
\* records no diagnostic; and the query of a call is accepted by at most one
\* entry point, the one whose band it lies in.
C21_BandContract ==
  (pc # "idle" /\ entry \in BandEntries) =>
    /\ query \notin BandOf(entry) =>
         /\ pc = "halted"
         /\ ret = "halt"
         /\ result = Unset
         /\ diag \in PriorDiags
    /\ Cardinality(Accepting(query)) <= 1
    /\ \A e \in BandEntries : e \in Accepting(query) <=> query \in BandOf(e)

\* GetTraits was handed has_attribute.
C21_Witness ==
  /\ pc = "halted"
  /\ entry = "GetTraits"
  /\ query = "RQ_has_attribute"
  /\ subject.kind = "RK_declaration"


\* The scope that encloses D; NullDecl for the translation unit.
Enclosing(D) == ContextDecl(D.ctx)

\* C22 (get_parent), as stated: with a reachable declaration, the global
\* scope included, get_parent yields the declaration reflection of the
\* enclosing scope; it fails exactly when no declaration is reachable.
C22_GetParentAsStated ==
  (pc # "idle" /\ query = "RQ_get_parent") =>
    LET D == getReachableDecl(subject)
    IN IF D # NullDecl
       THEN /\ ret = "true"
            /\ result.t = "reflection"
            /\ result.r.kind = "RK_declaration"
            /\ result.r = DeclRefl(Enclosing(D))
       ELSE ret = "false" /\ result = Unset

\* C22 (get_parent), amended: with a reachable declaration get_parent
\* succeeds, with the declaration reflection of the enclosing scope or, for
\* the global scope that has none, with the invalid reflection; it fails
\* exactly when no declaration is reachable.
C22_GetParent ==
  (pc # "idle" /\ query = "RQ_get_parent") =>
    LET D == getReachableDecl(subject)
    IN IF D # NullDecl
       THEN /\ ret = "true"
            /\ result = ReflVal(IF Enclosing(D) = NullDecl THEN InvalidRefl
                                ELSE DeclRefl(Enclosing(D)))
       ELSE ret = "false" /\ result = Unset

\* get_parent of the global scope has succeeded with the invalid
\* reflection.
C22_Witness ==
  /\ pc = "returned"
  /\ query = "RQ_get_parent"
  /\ getReachableDecl(subject).kind = "TranslationUnit"
  /\ ret = "true"
  /\ result = ReflVal(InvalidRefl)


\* C23 (get_begin): when the reachable declaration is a scope, get_begin
\* succeeds with the first reflectable child of the scope in declaration
\* order (the invalid reflection if it has none); with no reachable
\* declaration, or one that is not a scope, it fails.
C23_GetBegin ==
  (pc # "idle" /\ query = "RQ_get_begin") =>
    LET D == getReachableDecl(subject)
    IN IF D # NullDecl /\ D.kind \in DeclContextKinds
       THEN /\ ret = "true"
            /\ result = ReflVal(Yield(D, 1))
       ELSE /\ ret = "false"
            /\ result = Unset

\* get_begin on a struct has stepped over the injected class name and an
\* access specifier to reach the third child.
C23_Witness ==
  /\ pc = "returned"
  /\ query = "RQ_get_begin"
  /\ ret = "true"
  /\ Len(members) >= 3
  /\ members[1] = "InjectedClassName"
  /\ members[2] = "AccessSpec"
  /\ result.r.kind = "RK_declaration"
  /\ result.r.decl.pos = 3


\* C24 (get_type): an expression reflection yields the reflection of the
\* type of the expression; a reflection whose reachable declaration is a
\* type declaration yields the type it declares; one whose reachable
\* declaration is a value declaration yields its declared type; every other
\* reflection fails.  (An expression that has no type is left aside.)
C24_GetType ==
  (pc # "idle" /\ query = "RQ_get_type") =>
    LET D == getReachableDecl(subject)
    IN CASE subject.kind = "RK_expression" /\ subject.expr.ty # NullType ->
              /\ ret = "true"
              /\ result = ReflVal(TypeRefl(subject.expr.ty))
         [] subject.kind = "RK_expression" /\ subject.expr.ty = NullType ->
              TRUE
         [] subject.kind # "RK_expression" /\ D.kind \in TypeDeclKinds ->
              /\ ret = "true"
              /\ result = ReflVal(TypeRefl(getTypeForDecl(D)))
         [] subject.kind # "RK_expression" /\ D.kind \in ValueKinds ->
              /\ ret = "true"
              /\ result = ReflVal(TypeRefl(D.ty))
         [] OTHER ->
              /\ ret = "false"
              /\ result = Unset


\* get_type of the declaration reflection of a field has yielded the
\* declared type of the field.
C24_Witness ==
  /\ pc = "returned"
  /\ query = "RQ_get_type"
  /\ ret = "true"
  /\ subject.kind = "RK_declaration"
  /\ subject.decl.kind = "Field"
  /\ result = ReflVal(TypeRefl(subject.decl.ty))


\* C25 (is_unnamed): is_unnamed succeeds, with true exactly when the
\* declaration has no identifier, whenever the reachable declaration of the
\* reflection is a named declaration, be the reflection a declaration, a
\* type or an expression; it fails when no declaration is reachable or the
\* reachable one is not a named declaration.
C25_IsUnnamed ==
  (pc # "idle" /\ query = "RQ_is_unnamed") =>
    LET D == getReachableDecl(subject)
    IN IF D # NullDecl /\ D.kind \in NamedKinds
       THEN /\ ret = "true"
            /\ result = makeBool(D.ident = "")
       ELSE /\ ret = "false"
            /\ result = Unset

\* is_unnamed of a declaration reflection: as above; of any other
\* reflection: a failure.
IsUnnamedOfDeclaration ==
  (pc # "idle" /\ query = "RQ_is_unnamed") =>
    IF subject.kind = "RK_declaration" THEN C25_IsUnnamed
    ELSE ret = "false" /\ result = Unset


\* The Kind a member function has in its record (enum MethodKind).
KindOf(c) ==
  CASE c = 0 -> "CXXMethod" [] c = 1 -> "CXXConstructor"
    [] c = 2 -> "CXXDestructor" [] OTHER -> "CXXConversion"

-----------------------------------------------------------------------------
(* A caller that asks every query, the attribute queries included, one     *)
(* after another with the same Result.                                     *)

FrameSubjects ==
  {InvalidRefl, TypeRefl(Ty("Record", 6)),
   DeclRefl(Attributed("Var", <<UserDefinedAttr(IntTy, UIntVal(1))>>))}

FrameArgs == {TypeRefl(IntTy), TypeRefl(NullType)}

FrameInit ==
  /\ InitCaller
  /\ scopeKind = "struct"
  /\ members = DefaultMembers
  /\ extra = Attributed("Var", <<UserDefinedAttr(IntTy, UIntVal(1))>>)
  /\ subject \in FrameSubjects

FrameNext ==
  \/ \E q \in PredicateQueries : CallEvaluatePredicate(q)
  \/ \E q \in TraitQueries : CallGetTraits(q)
  \/ \E q \in AssociatedQueries : CallGetAssociatedReflection(q)
  \/ \E q \in NameQueries : CallGetName(q)
  \/ \E a \in FrameArgs : CallGetUserDefinedAttribute(a)
  \/ \E a \in FrameArgs : CallHasUserDefinedAttribute(a)
  \/ Continue

FrameSpec == FrameInit /\ [][FrameNext]_vars

\* C27 (failure leaves the output untouched): a call of any entry point
\* that does not return success leaves the caller's Result as it was;
\* Result changes only in a call that succeeds.
C27_FailureFrame ==
  [][(pc = "idle" /\ ret' # "true") => result' = result]_vars

\* get_attribute has failed after an earlier query had stored an unsigned
\* value in Result, and the value is still there.
C27_Witness ==
  /\ pc = "returned"
  /\ entry = "GetUserDefinedAttribute"
  /\ ret = "false"
  /\ result.t = "uint"


\* C28 (get_entity is idempotent and preserves equality): for a type or
\* declaration reflection x, get_entity(x) succeeds with a reflection e,
\* equal(x, e) is true, and get_entity(e) succeeds with a reflection that
\* equals e.
C28_GetEntityIdempotent ==
  (Called("RQ_get_entity") /\ subject.kind \in {"RK_type", "RK_declaration"})
    => /\ ret = "true"
       /\ result.t = "reflection"
       /\ Equal(subject, result.r)
       /\ getEntity(result.r).ret = "true"
       /\ Equal(result.r, getEntity(result.r).val.r)
       /\ getEntity(result.r).val = result

\* get_entity of the reflection of a type alias has yielded a reflection
\* of another type that equals the alias, and get_entity maps it to itself.
C28_Witness ==
  /\ pc = "returned"
  /\ query = "RQ_get_entity"
  /\ ret = "true"
  /\ subject.kind = "RK_type"
  /\ result.r # subject
  /\ Equal(subject, result.r)
  /\ getEntity(result.r).val = result


\* C29 (the attribute queries agree): for every reflection and every
\* attribute type operand that is not the null type, has_attribute answers
\* true exactly when get_attribute on the same operands succeeds, and false
\* exactly when get_attribute fails.
C29_AttributeQueriesAgree ==
  /\ (Called("RQ_has_attribute") /\ arg.type # NullType) =>
       /\ ret = "true"
       /\ result.t = "bool"
       /\ result.b <=> GetUserDefinedAttribute(subject, arg).ret = "true"
  /\ (Called("RQ_get_attribute") /\ arg.type # NullType) =>
       /\ ret \in {"true", "false"}
       /\ HasUserDefinedAttribute(subject, arg).ret = "true"
       /\ ret = "true" <=> HasUserDefinedAttribute(subject, arg).val.b

\* has_attribute has answered true for a type reflection whose declaration
\* carries an attribute of the operand's type, where get_attribute
\* succeeds.
C29_Witness ==
  /\ pc = "returned"
  /\ query = "RQ_has_attribute"
  /\ subject.kind = "RK_type"
  /\ arg.type # NullType
  /\ result = makeBool(TRUE)
  /\ GetUserDefinedAttribute(subject, arg).ret = "true"


\* C30 (the single-purpose trait records agree with the full records): for
\* every reflection on which get_decl_traits succeeds, get_linkage_traits
\* succeeds with a value whose bits 0-1 are bits 0-1 of the decl-traits
\* value and whose other bits are zero, and get_access_traits succeeds with
\* a value whose bits 2-3 are bits 2-3 of the decl-traits value and whose
\* other bits are zero.
C30_PositionalConsistency ==
  LET full == makeDeclTraits(subject)
  IN /\ (Called("RQ_get_linkage_traits") /\ full.ret = "true") =>
          /\ ret = "true"
          /\ result.t = "uint"
          /\ Field(result.n, 0, 2) = Field(full.val.n, 0, 2)
          /\ result.n \div 4 = 0
     /\ (Called("RQ_get_access_traits") /\ full.ret = "true") =>
          /\ ret = "true"
          /\ result.t = "uint"
          /\ Field(result.n, 2, 2) = Field(full.val.n, 2, 2)
          /\ Field(result.n, 0, 2) = 0
          /\ result.n \div 16 = 0
     /\ (Called("RQ_get_decl_traits") /\ ret = "true") =>
          /\ makeLinkageTraits(subject).ret = "true"
          /\ makeLinkageTraits(subject).val.n = Field(result.n, 0, 2)
          /\ makeAccessTraits(subject).ret = "true"
          /\ makeAccessTraits(subject).val.n = 4 * Field(result.n, 2, 2)

\* get_access_traits of a private member with linkage has returned a value
\* with the access in bits 2-3 and nothing in bits 0-1, where the
\* decl-traits value has the linkage.
C30_Witness ==
  /\ pc = "returned"
  /\ query = "RQ_get_access_traits"
  /\ ret = "true"
  /\ makeDeclTraits(subject).ret = "true"
  /\ Field(makeDeclTraits(subject).val.n, 0, 2) # 0
  /\ Field(result.n, 2, 2) = 2
  /\ Field(result.n, 0, 2) = 0

====
